---- MODULE Spec2Model ----
(***************************************************************************)
(* Per-site apartment store (wohnung/site_storage.py) and change detector  *)
(* (wohnung/change_detector.py) of the wohnungsscraper.                    *)
(*                                                                         *)
(* The data directory is modelled as one JSON document per site (files)    *)
(* and one append-only change log per site (history).  Every public call   *)
(* of SiteStorage is one action; the call's arguments and its return value *)
(* are recorded in call / ret and the directory it found in pre.           *)
(***************************************************************************)
EXTENDS Integers, Sequences, FiniteSets, TLC

VARIABLES files, history, clock, call, ret, pre

vars == <<files, history, clock, call, ret, pre>>

(***************************************************************************)
(* Bounds                                                                  *)
(***************************************************************************)
MaxTime == 1
MaxBatch == 2
MaxChanges == 3
MaxMarkers == 2
MaxStepBatch == 1
MaxHistory == 3
MaxLimit == 2
MaxWritten == 2

(***************************************************************************)
(* Values                                                                  *)
(***************************************************************************)
Sites == {"siteA", "siteB", "legacy"}
Ids == {"siteA-01", "siteA-02"}
Times == 0..MaxTime

\* Python's None, as returned by dict.get for a missing key.
None == "None"

\* datetime.isoformat() and datetime.fromisoformat()
isoformat(t) == "T" \o ToString(t)
fromisoformat(s) == CHOOSE t \in 0..(MaxTime + 1) : isoformat(t) = s

Put(f, k, v) == [x \in (DOMAIN f) \cup {k} |-> IF x = k THEN v ELSE f[x]]
Get(d, k) == IF k \in DOMAIN d THEN d[k] ELSE None
Range(s) == {s[i] : i \in DOMAIN s}
EmptyMap == [x \in {} |-> None]

\* The iteration order of a Python set of strings is not specified: every
\* loop over a set of ids runs in an arbitrary order ord of all ids.
Orders == {o \in [1..Cardinality(Ids) -> Ids] : \A i, j \in DOMAIN o : i # j => o[i] # o[j]}
InOrder(S, ord) == SelectSeq(ord, LAMBDA x : x \in S)

(***************************************************************************)
(* models.py: Flat                                                         *)
(***************************************************************************)
Flat(id, title, price, markers, source, found_at) ==
    [id |-> id, title |-> title, url |-> "https://x/" \o id, price |-> price,
     size |-> "80.0", rooms |-> "3.0", location |-> "Vienna",
     description |-> None, image_url |-> None, source |-> source,
     markers |-> markers, found_at |-> found_at]

\* Flat.model_dump(mode="json"): the same fields, the datetime as ISO string.
model_dump(flat) == [flat EXCEPT !.found_at = isoformat(flat.found_at)]

(***************************************************************************)
(* change_detector.py                                                      *)
(***************************************************************************)
ChangeDetectorConfig ==
    [monitored_fields |-> <<"price", "title", "size", "rooms", "location", "description">>,
     ignore_fields |-> <<"found_at", "last_updated">>]

ApartmentChange(type, id, ts, changes, data) ==
    [change_type |-> type, apartment_id |-> id, timestamp |-> ts,
     changes |-> changes, apartment_data |-> data]

\* Mutant: the ignore list is not consulted.
Ignored_Never(config, field) == FALSE

\* if field in self.config.ignore_fields: continue
Ignored(config, field) == field \in Range(config.ignore_fields)

RECURSIVE CompareLoop(_, _, _, _, _)
CompareLoop(config, fields, old_data, new_data, changes) ==
    IF fields = <<>> THEN changes
    ELSE LET field == Head(fields)
             old_value == Get(old_data, field)
             new_value == Get(new_data, field)
             next == IF Ignored(config, field) THEN changes
                     ELSE IF old_value # new_value
                          THEN Put(changes, field, <<old_value, new_value>>)
                          ELSE changes
         IN CompareLoop(config, Tail(fields), old_data, new_data, next)

_compare_fields(config, old_data, new_data) ==
    CompareLoop(config, config.monitored_fields, old_data, new_data, EmptyMap)

\* new_by_id = {flat.id: flat for flat in new_apartments}: the last flat wins.
RECURSIVE IndexById(_, _)
IndexById(flats, acc) ==
    IF flats = <<>> THEN acc
    ELSE IndexById(Tail(flats), Put(acc, Head(flats).id, Head(flats)))

RECURSIVE UpdatedLoop(_, _, _, _, _, _)
\* Mutant: an updated change is made for every id that is stored and in the
\* batch.
UpdatedLoop_Always(config, ids, old_apartments, new_by_id, now, changes) ==
    changes \o [i \in DOMAIN ids |->
                  ApartmentChange("updated", ids[i], now,
                                  _compare_fields(config, old_apartments[ids[i]],
                                                  model_dump(new_by_id[ids[i]])),
                                  model_dump(new_by_id[ids[i]]))]

UpdatedLoop(config, ids, old_apartments, new_by_id, now, changes) ==
    IF ids = <<>> THEN changes
    ELSE LET apt_id == Head(ids)
             old_data == old_apartments[apt_id]
             new_data == model_dump(new_by_id[apt_id])
             field_changes == _compare_fields(config, old_data, new_data)
             next == IF field_changes # EmptyMap
                     THEN Append(changes,
                                 ApartmentChange("updated", apt_id, now, field_changes, new_data))
                     ELSE changes
         IN UpdatedLoop(config, Tail(ids), old_apartments, new_by_id, now, next)

\* Mutant: a new change is made for every flat of the batch that is not
\* stored, not for every id.
detect_changes_PerFlat(config, old_apartments, new_apartments, now, ord) ==
    LET new_by_id == IndexById(new_apartments, EmptyMap)
        old_ids == DOMAIN old_apartments
        new_ids == DOMAIN new_by_id
        added == SelectSeq(new_apartments, LAMBDA flat : flat.id \notin old_ids)
        gone == InOrder(old_ids \ new_ids, ord)
        c1 == [i \in 1..Len(added) |->
                 ApartmentChange("new", added[i].id, now, EmptyMap, model_dump(added[i]))]
        c2 == UpdatedLoop(config, InOrder(old_ids \cap new_ids, ord),
                          old_apartments, new_by_id, now, c1)
        c3 == [i \in 1..Len(gone) |->
                 ApartmentChange("removed", gone[i], now, EmptyMap, old_apartments[gone[i]])]
    IN c2 \o c3

detect_changes(config, old_apartments, new_apartments, now, ord) ==
    LET new_by_id == IndexById(new_apartments, EmptyMap)
        old_ids == DOMAIN old_apartments
        new_ids == DOMAIN new_by_id
        added == InOrder(new_ids \ old_ids, ord)
        gone == InOrder(old_ids \ new_ids, ord)
        c1 == [i \in 1..Len(added) |->
                 ApartmentChange("new", added[i], now, EmptyMap, model_dump(new_by_id[added[i]]))]
        c2 == UpdatedLoop(config, InOrder(old_ids \cap new_ids, ord),
                          old_apartments, new_by_id, now, c1)
        c3 == [i \in 1..Len(gone) |->
                 ApartmentChange("removed", gone[i], now, EmptyMap, old_apartments[gone[i]])]
    IN c2 \o c3

get_significant_changes(changes) ==
    SelectSeq(changes, LAMBDA c : c.change_type \in {"new", "updated"})

\* Mutant: the change type is not tested.
get_price_changes_AnyType(changes) ==
    SelectSeq(changes, LAMBDA c : "price" \in DOMAIN c.changes)

get_price_changes(changes) ==
    SelectSeq(changes, LAMBDA c : c.change_type = "updated" /\ "price" \in DOMAIN c.changes)

(***************************************************************************)
(* site_storage.py                                                         *)
(***************************************************************************)
NoFile == [exists |-> FALSE]
NoData == [exists |-> FALSE]

ApartmentMetadata(id, status, first_seen, last_seen, last_updated, data) ==
    [apartment_id |-> id, status |-> status, first_seen |-> first_seen,
     last_seen |-> last_seen, last_updated |-> last_updated, data |-> data]

SiteStorageData(site, last_scrape, apartments) ==
    [exists |-> TRUE, site |-> site, last_scrape |-> last_scrape, apartments |-> apartments]

\* The document of a site parsed back into datetimes, or NoData.
_read_site_data(dir, site_name) ==
    IF ~dir[site_name].exists THEN NoData
    ELSE LET data == dir[site_name]
         IN SiteStorageData(data.site, fromisoformat(data.last_scrape),
                [apt_id \in DOMAIN data.apartments |->
                    [data.apartments[apt_id] EXCEPT
                        !.first_seen = fromisoformat(@),
                        !.last_seen = fromisoformat(@),
                        !.last_updated = fromisoformat(@)]])

\* Values of a model_dump(mode="json") dictionary hold no datetime: strings,
\* None and lists of strings are copied as they are.
_serialize_data(data) == [key \in DOMAIN data |-> data[key]]

\* The JSON document written for site_data (a whole-file overwrite).
_write_site_data(site_data) ==
    [exists |-> TRUE, site |-> site_data.site,
     last_scrape |-> isoformat(site_data.last_scrape),
     apartments |-> [apt_id \in DOMAIN site_data.apartments |->
        LET apt == site_data.apartments[apt_id]
        IN [apartment_id |-> apt.apartment_id, status |-> apt.status,
            first_seen |-> isoformat(apt.first_seen),
            last_seen |-> isoformat(apt.last_seen),
            last_updated |-> isoformat(apt.last_updated),
            data |-> _serialize_data(apt.data)]]]

get_apartments(dir, site_name) ==
    LET site_data == _read_site_data(dir, site_name)
    IN IF ~site_data.exists THEN EmptyMap ELSE site_data.apartments

get_active_apartments(dir, site_name) ==
    LET apartments == get_apartments(dir, site_name)
    IN [apt_id \in {i \in DOMAIN apartments : apartments[i].status = "active"} |->
            apartments[apt_id]]

\* Mutant: a record matches when it carries all the markers asked for.
HasAnyMarker_All(apt, marker_names) ==
    LET apt_markers == IF "markers" \in DOMAIN apt.data THEN apt.data.markers ELSE <<>>
    IN \A i \in DOMAIN marker_names : marker_names[i] \in Range(apt_markers)

\* any(marker in apt_markers for marker in marker_names), with
\* apt_markers = apt.data.get("markers", [])
HasAnyMarker(apt, marker_names) ==
    LET apt_markers == IF "markers" \in DOMAIN apt.data THEN apt.data.markers ELSE <<>>
    IN \E i \in DOMAIN marker_names : marker_names[i] \in Range(apt_markers)

get_apartments_with_markers(dir, site_name, marker_names, active_only) ==
    LET apartments == IF active_only THEN get_active_apartments(dir, site_name)
                      ELSE get_apartments(dir, site_name)
    IN [apt_id \in {i \in DOMAIN apartments : HasAnyMarker(apartments[i], marker_names)} |->
            apartments[apt_id]]

Max(S) == CHOOSE x \in S : \A y \in S : y <= x
Min(S) == CHOOSE x \in S : \A y \in S : x <= y

\* Mutant: the removed records are counted as active too.
ActiveOf_All(apartments) == DOMAIN apartments

\* active = [apt for apt in apartments.values() if apt.status == "active"]
ActiveOf(apartments) == {apt_id \in DOMAIN apartments : apartments[apt_id].status = "active"}

get_site_stats(dir, site_name) ==
    LET apartments == get_apartments(dir, site_name)
        active == ActiveOf(apartments)
        removed == {apt_id \in DOMAIN apartments : apartments[apt_id].status = "removed"}
    IN [total |-> Cardinality(DOMAIN apartments),
        active |-> Cardinality(active),
        removed |-> Cardinality(removed),
        newest |-> IF active # {} THEN Max({apartments[a].first_seen : a \in active}) ELSE None,
        oldest |-> IF active # {} THEN Min({apartments[a].first_seen : a \in active}) ELSE None]

\* The record inserted for an id that is not stored yet.
NewApartment(flat_id, flat_dict, now) ==
    ApartmentMetadata(flat_id, "active", now, now, now, flat_dict)

\* Mutant: only the monitored fields are compared.
IsUpdate_MonitoredOnly(existing, flat_dict) ==
    \/ _compare_fields(ChangeDetectorConfig, existing.data, flat_dict) # EmptyMap
    \/ existing.status = "removed"

\* Mutant: a reactivation is no update.
IsUpdate_DataOnly(existing, flat_dict) == existing.data # flat_dict

\* if existing.data != flat_dict or was_removed
IsUpdate(existing, flat_dict) ==
    existing.data # flat_dict \/ existing.status = "removed"

\* Mutant: a record that comes back is stored as if it were first seen now.
SeenAgain_Reborn(existing, flat_dict, now) ==
    LET seen == [existing EXCEPT !.last_seen = now, !.status = "active"]
    IN IF IsUpdate(existing, flat_dict)
       THEN [seen EXCEPT !.data = flat_dict, !.last_updated = now,
                         !.first_seen = IF existing.status = "removed" THEN now ELSE @]
       ELSE seen

\* Mutant: the status of a record that is seen again is not set.
SeenAgain_StayingRemoved(existing, flat_dict, now) ==
    LET seen == [existing EXCEPT !.last_seen = now]
    IN IF IsUpdate(existing, flat_dict)
       THEN [seen EXCEPT !.data = flat_dict, !.last_updated = now]
       ELSE seen

\* Mutant: last_seen is set only when the record is updated.
SeenAgain_Stale(existing, flat_dict, now) ==
    LET seen == [existing EXCEPT !.status = "active"]
    IN IF IsUpdate(existing, flat_dict)
       THEN [seen EXCEPT !.data = flat_dict, !.last_updated = now, !.last_seen = now]
       ELSE seen

\* Mutant: last_updated is set whenever the id is seen.
SeenAgain_Touching(existing, flat_dict, now) ==
    LET seen == [existing EXCEPT !.last_seen = now, !.status = "active", !.last_updated = now]
    IN IF IsUpdate(existing, flat_dict) THEN [seen EXCEPT !.data = flat_dict] ELSE seen

\* The stored record of an id that is in the batch again.
SeenAgain(existing, flat_dict, now) ==
    LET seen == [existing EXCEPT !.last_seen = now, !.status = "active"]
    IN IF IsUpdate(existing, flat_dict)
       THEN [seen EXCEPT !.data = flat_dict, !.last_updated = now]
       ELSE seen

\* The loop over the incoming flats; acc holds apartments, new_ids, updated_ids.
RECURSIVE FlatsLoop(_, _, _, _)
FlatsLoop(acc, flats, existing_ids, now) ==
    IF flats = <<>> THEN acc
    ELSE LET flat == Head(flats)
             flat_dict == model_dump(flat)
             next ==
               IF flat.id \notin existing_ids
               THEN [acc EXCEPT
                       !.apartments = Put(@, flat.id, NewApartment(flat.id, flat_dict, now)),
                       !.new_ids = Append(@, flat.id)]
               ELSE LET existing == acc.apartments[flat.id]
                    IN [acc EXCEPT
                          !.apartments = Put(@, flat.id, SeenAgain(existing, flat_dict, now)),
                          !.updated_ids = IF IsUpdate(existing, flat_dict)
                                          THEN Append(@, flat.id) ELSE @]
         IN FlatsLoop(next, Tail(flats), existing_ids, now)

\* Mutant: the status of a missing record is not tested.
MissingActive_Remarking(apartments, existing_ids, current_ids, mark_missing_as_removed) ==
    IF mark_missing_as_removed THEN existing_ids \ current_ids ELSE {}

\* Mutant: mark_missing_as_removed is not tested.
MissingActive_IgnoringFlag(apartments, existing_ids, current_ids, mark_missing_as_removed) ==
    {apt_id \in existing_ids \ current_ids : apartments[apt_id].status = "active"}

\* Ids put to removed by the loop over existing_ids - current_ids.
MissingActive(apartments, existing_ids, current_ids, mark_missing_as_removed) ==
    IF mark_missing_as_removed
    THEN {apt_id \in existing_ids \ current_ids : apartments[apt_id].status = "active"}
    ELSE {}

\* Mutant: a missing record is deleted.
MarkRemoved_Deleting(apartments, missing) ==
    [apt_id \in (DOMAIN apartments) \ missing |-> apartments[apt_id]]

\* Mutant: a removal counts as an update of the record.
MarkRemoved_Resetting(apartments, missing) ==
    [apt_id \in DOMAIN apartments |->
        IF apt_id \in missing
        THEN [apartments[apt_id] EXCEPT !.status = "removed",
                                       !.last_updated = apartments[apt_id].last_seen]
        ELSE apartments[apt_id]]

\* site_data.apartments[apt_id].status = "removed" for the missing ids.
MarkRemoved(apartments, missing) ==
    [apt_id \in DOMAIN apartments |->
        IF apt_id \in missing
        THEN [apartments[apt_id] EXCEPT !.status = "removed"]
        ELSE apartments[apt_id]]

\* save_apartments as a function of the directory: the document it writes and
\* the three lists it returns.
save_apartments(dir, site_name, flats, mark_missing_as_removed, now, ord) ==
    LET read == _read_site_data(dir, site_name)
        site_data == IF ~read.exists THEN SiteStorageData(site_name, now, EmptyMap) ELSE read
        current_ids == {flats[i].id : i \in DOMAIN flats}
        existing_ids == DOMAIN site_data.apartments
        looped == FlatsLoop([apartments |-> site_data.apartments,
                             new_ids |-> <<>>, updated_ids |-> <<>>],
                            flats, existing_ids, now)
        missing == MissingActive(looped.apartments, existing_ids, current_ids,
                                 mark_missing_as_removed)
        apartments == MarkRemoved(looped.apartments, missing)
    IN [file |-> _write_site_data(SiteStorageData(site_name, now, apartments)),
        new_ids |-> looped.new_ids,
        updated_ids |-> looped.updated_ids,
        removed_ids |-> InOrder(missing, ord)]

\* Flat(**flat_data) of one legacy record: the id is the key of the record, a
\* missing found_at is now, a missing location is "Unknown", and the optional
\* fields of Flat take their defaults.
LegacyFlat(flat_id, flat_data, now) ==
    [id |-> flat_id,
     title |-> flat_data.title,
     url |-> flat_data.url,
     price |-> Get(flat_data, "price"),
     size |-> Get(flat_data, "size"),
     rooms |-> Get(flat_data, "rooms"),
     location |-> IF "location" \in DOMAIN flat_data THEN flat_data.location ELSE "Unknown",
     description |-> Get(flat_data, "description"),
     image_url |-> Get(flat_data, "image_url"),
     source |-> flat_data.source,
     markers |-> IF "markers" \in DOMAIN flat_data THEN flat_data.markers ELSE <<>>,
     found_at |-> IF "found_at" \in DOMAIN flat_data
                  THEN fromisoformat(flat_data.found_at) ELSE now]

\* Mutant: every record goes to the default site.
LegacySite_Default(flat, default_site) == default_site

\* site = flat.source or default_site
LegacySite(flat, default_site) == IF flat.source = "" THEN default_site ELSE flat.source

\* flats_by_site: the sites in the order of their first record, and the flats
\* of each site in the order of the legacy file.
RECURSIVE GroupBySite(_, _, _, _)
GroupBySite(entries, default_site, now, acc) ==
    IF entries = <<>> THEN acc
    ELSE LET flat == LegacyFlat(Head(entries).id, Head(entries).data, now)
             site == LegacySite(flat, default_site)
             next == IF site \in DOMAIN acc.flats
                     THEN [acc EXCEPT !.flats[site] = Append(@, flat)]
                     ELSE [sites |-> Append(acc.sites, site),
                           flats |-> Put(acc.flats, site, <<flat>>)]
         IN GroupBySite(Tail(entries), default_site, now, next)

RECURSIVE SaveEachSite(_, _, _, _, _)
SaveEachSite(dir, sites, flats_by_site, now, ord) ==
    IF sites = <<>> THEN dir
    ELSE LET r == save_apartments(dir, Head(sites), flats_by_site[Head(sites)], FALSE, now, ord)
         IN SaveEachSite([dir EXCEPT ![Head(sites)] = r.file], Tail(sites),
                         flats_by_site, now, ord)

\* migrate_from_legacy as a function of the directory: the directory it leaves.
migrate_from_legacy(dir, legacy_file, default_site, now, ord) ==
    IF ~legacy_file.exists THEN dir
    ELSE LET grouped == GroupBySite(legacy_file.flats, default_site, now,
                                    [sites |-> <<>>, flats |-> EmptyMap])
         IN SaveEachSite(dir, grouped.sites, grouped.flats, now, ord)

\* The line of <site>_history.jsonl written for a change: change_dict with the
\* timestamp as ISO string.
HistoryLine(change) == [change EXCEPT !.timestamp = isoformat(change.timestamp)]

\* _save_change_history: the lines of the history file after the append.
_save_change_history(lines, changes) ==
    lines \o [i \in 1..Len(changes) |-> HistoryLine(changes[i])]

\* ApartmentChange(**data) of a line, its timestamp parsed back.
ParseLine(line) ==
    ApartmentChange(line.change_type, line.apartment_id, fromisoformat(line.timestamp),
                    line.changes, line.apartment_data)

Reverse(s) == [i \in 1..Len(s) |-> s[Len(s) + 1 - i]]

\* limit: int | None is <<>> for None and <<n>> for the integer n.
NoLimit == <<>>

\* if limit: None and 0 are false.
LimitGiven(limit) == limit # NoLimit /\ limit[1] # 0

\* changes[:n] for n >= 0
Slice(changes, n) == SubSeq(changes, 1, IF n < Len(changes) THEN n ELSE Len(changes))

\* get_change_history, of the lines of the history file of the site (none
\* when the file does not exist).
get_change_history(lines, limit) ==
    LET changes == Reverse([i \in 1..Len(lines) |-> ParseLine(lines[i])])
    IN IF LimitGiven(limit) THEN Slice(changes, limit[1]) ELSE changes

(***************************************************************************)
(* Inputs                                                                  *)
(***************************************************************************)
\* Flat 1 as first found, with a new price and found again later; flat 2.
Flat1 == Flat("siteA-01", "Flat 1", "1000.0", <<>>, "siteA", 0)
Flat2 == Flat("siteA-02", "Flat 2", "1000.0", <<>>, "siteA", 0)
Flats == {Flat1, [Flat1 EXCEPT !.price = "1100.0"], [Flat1 EXCEPT !.found_at = 1], Flat2}
SeqsUpTo(S, n) == UNION {[1..k -> S] : k \in 0..n}
Batches == SeqsUpTo(Flats, MaxBatch)

\* Records of a legacy flats.json: the dump of a flat without its id, with or
\* without found_at.
LegacyEntry(flat, with_found_at) ==
    LET data == model_dump(flat)
        keys == (DOMAIN data) \ ({"id"} \cup (IF with_found_at THEN {} ELSE {"found_at"}))
    IN [id |-> flat.id, data |-> [k \in keys |-> data[k]]]
LegacyEntries == {LegacyEntry(flat, w) : flat \in {Flat1, Flat2}, w \in BOOLEAN}
LegacyFiles ==
    {NoFile} \cup
    {[exists |-> TRUE, flats |-> entries] : entries \in
        {e \in SeqsUpTo(LegacyEntries, MaxBatch) :
            \A i, j \in DOMAIN e : i # j => e[i].id # e[j].id}}

NoCall == [op |-> "none"]
NoRet == [op |-> "none"]

(***************************************************************************)
(* The store: sequential calls of SiteStorage                              *)
(***************************************************************************)
Init ==
    /\ files = [s \in Sites |-> NoFile]
    /\ history = [s \in Sites |-> <<>>]
    /\ clock = 0
    /\ call = NoCall
    /\ ret = NoRet
    /\ pre = files

\* Time passes while the caller holds no result.
Tick ==
    /\ call = NoCall
    /\ clock < MaxTime
    /\ clock' = clock + 1
    /\ UNCHANGED <<files, history, call, ret, pre>>

\* The caller is done with the value a call returned.
Return ==
    /\ call # NoCall
    /\ call' = NoCall
    /\ ret' = NoRet
    /\ pre' = files
    /\ UNCHANGED <<files, history, clock>>

\* save_apartments(site_name, flats, mark_missing_as_removed) at time now;
\* again tells that the call repeats the arguments of the call before it.
DoSave(site_name, flats, mark_missing_as_removed, now, ord, again) ==
    LET r == save_apartments(files, site_name, flats, mark_missing_as_removed, now, ord)
    IN /\ files' = [files EXCEPT ![site_name] = r.file]
       /\ call' = [op |-> "save_apartments", site_name |-> site_name, flats |-> flats,
                   mark_missing_as_removed |-> mark_missing_as_removed, now |-> now,
                   again |-> again]
       /\ ret' = [op |-> "save_apartments", new_ids |-> r.new_ids,
                  updated_ids |-> r.updated_ids, removed_ids |-> r.removed_ids]
       /\ pre' = files
       /\ clock' = now
       /\ UNCHANGED history

SaveApartments(site_name, flats, mark_missing_as_removed, ord) ==
    /\ call = NoCall
    /\ DoSave(site_name, flats, mark_missing_as_removed, clock, ord, FALSE)

\* The same call once more, at once or some time after the first one returned.
SaveApartmentsAgain(now, ord) ==
    /\ call.op = "save_apartments"
    /\ ~call.again
    /\ now >= clock
    /\ DoSave(call.site_name, call.flats, call.mark_missing_as_removed, now, ord, TRUE)

\* Mutant: the store is written before the changes are detected.
SaveApartmentsWithChanges_SaveFirst(site_name, flats, mark_missing_as_removed, track_history, ord) ==
    LET r == save_apartments(files, site_name, flats, mark_missing_as_removed, clock, ord)
        saved == [files EXCEPT ![site_name] = r.file]
        apartments == get_apartments(saved, site_name)
        old_apartments == [apt_id \in DOMAIN apartments |-> apartments[apt_id].data]
        changes == detect_changes(ChangeDetectorConfig, old_apartments, flats, clock, ord)
    IN /\ call = NoCall
       /\ files' = saved
       /\ history' = IF track_history /\ changes # <<>>
                     THEN [history EXCEPT ![site_name] = _save_change_history(@, changes)]
                     ELSE history
       /\ call' = [op |-> "save_apartments_with_changes", site_name |-> site_name,
                   flats |-> flats, mark_missing_as_removed |-> mark_missing_as_removed,
                   track_history |-> track_history, now |-> clock]
       /\ ret' = [op |-> "save_apartments_with_changes", changes |-> changes,
                  new_ids |-> r.new_ids, updated_ids |-> r.updated_ids,
                  removed_ids |-> r.removed_ids]
       /\ pre' = files
       /\ UNCHANGED clock

\* save_apartments_with_changes: get_apartments, detect_changes,
\* save_apartments, then _save_change_history.
SaveApartmentsWithChanges(site_name, flats, mark_missing_as_removed, track_history, ord) ==
    LET apartments == get_apartments(files, site_name)
        old_apartments == [apt_id \in DOMAIN apartments |-> apartments[apt_id].data]
        changes == detect_changes(ChangeDetectorConfig, old_apartments, flats, clock, ord)
        r == save_apartments(files, site_name, flats, mark_missing_as_removed, clock, ord)
    IN /\ call = NoCall
       /\ files' = [files EXCEPT ![site_name] = r.file]
       /\ history' = IF track_history /\ changes # <<>>
                     THEN [history EXCEPT ![site_name] = _save_change_history(@, changes)]
                     ELSE history
       /\ call' = [op |-> "save_apartments_with_changes", site_name |-> site_name,
                   flats |-> flats, mark_missing_as_removed |-> mark_missing_as_removed,
                   track_history |-> track_history, now |-> clock]
       /\ ret' = [op |-> "save_apartments_with_changes", changes |-> changes,
                  new_ids |-> r.new_ids, updated_ids |-> r.updated_ids,
                  removed_ids |-> r.removed_ids]
       /\ pre' = files
       /\ UNCHANGED clock

MigrateFromLegacy(legacy_file, ord) ==
    /\ call = NoCall
    /\ files' = migrate_from_legacy(files, legacy_file, "legacy", clock, ord)
    /\ call' = [op |-> "migrate_from_legacy", legacy_file |-> legacy_file, now |-> clock]
    /\ ret' = [op |-> "migrate_from_legacy"]
    /\ pre' = files
    /\ UNCHANGED <<history, clock>>

\* The read-only calls leave the directory as it is.
GetActiveApartments(site_name) ==
    /\ call = NoCall
    /\ call' = [op |-> "get_active_apartments", site_name |-> site_name]
    /\ ret' = [op |-> "get_active_apartments",
               apartments |-> get_active_apartments(files, site_name)]
    /\ pre' = files
    /\ UNCHANGED <<files, history, clock>>

GetSiteStats(site_name) ==
    /\ call = NoCall
    /\ call' = [op |-> "get_site_stats", site_name |-> site_name]
    /\ ret' = [op |-> "get_site_stats", stats |-> get_site_stats(files, site_name)]
    /\ pre' = files
    /\ UNCHANGED <<files, history, clock>>

Next ==
    \/ Tick
    \/ Return
    \/ \E flats \in Batches, mark \in BOOLEAN, ord \in Orders :
          SaveApartments("siteA", flats, mark, ord)
    \/ \E now \in Times, ord \in Orders : SaveApartmentsAgain(now, ord)
    \/ \E flats \in Batches, mark \in BOOLEAN, ord \in Orders :
          SaveApartmentsWithChanges("siteA", flats, mark, FALSE, ord)
    \/ \E legacy_file \in LegacyFiles, ord \in Orders :
          MigrateFromLegacy(legacy_file, ord)
    \/ \E site_name \in {"siteA", "siteB"} : GetActiveApartments(site_name)
    \/ \E site_name \in {"siteA", "siteB"} : GetSiteStats(site_name)

Spec == Init /\ [][Next]_vars

(***************************************************************************)
(* The store read by markers: scrapes of flats that carry markers, and      *)
(* get_apartments_with_markers                                             *)
(***************************************************************************)
MarkerFlats ==
    {[Flat1 EXCEPT !.markers = <<"neubau">>],
     [Flat1 EXCEPT !.markers = <<"balkon", "neubau">>],
     Flat2,
     [Flat2 EXCEPT !.markers = <<"balkon">>]}
MarkerBatches == {b \in SeqsUpTo(MarkerFlats, MaxBatch) : \A i, j \in DOMAIN b : b[i].id = b[j].id => i = j}
MarkerNames == SeqsUpTo({"neubau", "balkon", "garten"}, MaxMarkers)

\* A document written before Flat had the field markers: the data of its
\* record has no key "markers".
OlderDocument ==
    LET data == model_dump(Flat2)
    IN _write_site_data(SiteStorageData("siteA", 0,
          [apt_id \in {"siteA-02"} |->
              ApartmentMetadata("siteA-02", "active", 0, 0, 0,
                  [k \in (DOMAIN data) \ {"markers"} |-> data[k]])]))

InitMarkers ==
    /\ \E doc \in {NoFile, OlderDocument} :
          files = [s \in Sites |-> IF s = "siteA" THEN doc ELSE NoFile]
    /\ history = [s \in Sites |-> <<>>]
    /\ clock = 0
    /\ call = NoCall
    /\ ret = NoRet
    /\ pre = files

GetApartmentsWithMarkers(site_name, marker_names, active_only) ==
    /\ call = NoCall
    /\ call' = [op |-> "get_apartments_with_markers", site_name |-> site_name,
                marker_names |-> marker_names, active_only |-> active_only]
    /\ ret' = [op |-> "get_apartments_with_markers",
               apartments |-> get_apartments_with_markers(files, site_name, marker_names,
                                                          active_only)]
    /\ pre' = files
    /\ UNCHANGED <<files, history, clock>>

NextMarkers ==
    \/ Return
    \/ \E flats \in MarkerBatches, mark \in BOOLEAN, ord \in Orders :
          SaveApartments("siteA", flats, mark, ord)
    \/ \E marker_names \in MarkerNames, active_only \in BOOLEAN :
          GetApartmentsWithMarkers("siteA", marker_names, active_only)

SpecMarkers == InitMarkers /\ [][NextMarkers]_vars

(***************************************************************************)
(* Migration: a legacy file whose records name different sites, or none,   *)
(* migrated into a directory that holds documents already                  *)
(***************************************************************************)
\* Flat 2 as found by another scraper, and as stored without a source.
Flat2B == [Flat2 EXCEPT !.source = "siteB"]
Flat2N == [Flat2 EXCEPT !.source = ""]
MigrateEntries ==
    {LegacyEntry(Flat1, TRUE), LegacyEntry(Flat2, TRUE), LegacyEntry(Flat2B, TRUE),
     LegacyEntry(Flat2B, FALSE), LegacyEntry(Flat2N, TRUE)}
MigrateFiles ==
    {NoFile} \cup
    {[exists |-> TRUE, flats |-> entries] : entries \in
        {e \in SeqsUpTo(MigrateEntries, MaxBatch) :
            \A i, j \in DOMAIN e : i # j => e[i].id # e[j].id}}

\* The migration runs at any time, on a directory written at that time.
InitMigrate ==
    /\ files = [s \in Sites |-> NoFile]
    /\ history = [s \in Sites |-> <<>>]
    /\ clock \in Times
    /\ call = NoCall
    /\ ret = NoRet
    /\ pre = files

NextMigrate ==
    \/ Return
    \/ \E flats \in SeqsUpTo({Flat1, Flat2}, 1), mark \in BOOLEAN, ord \in Orders :
          SaveApartments("siteA", flats, mark, ord)
    \/ \E flats \in SeqsUpTo({Flat2B}, 1), mark \in BOOLEAN, ord \in Orders :
          SaveApartments("siteB", flats, mark, ord)
    \/ \E legacy_file \in MigrateFiles, ord \in Orders :
          MigrateFromLegacy(legacy_file, ord)

SpecMigrate == InitMigrate /\ [][NextMigrate]_vars

(***************************************************************************)
(* The change log: scrapes of one flat saved with and without              *)
(* track_history, and get_change_history                                   *)
(***************************************************************************)
HistoryBatches == SeqsUpTo({Flat1, [Flat1 EXCEPT !.price = "1100.0"]}, 1)
Limits == {NoLimit} \cup {<<n>> : n \in 0..MaxLimit}

\* save_apartments_with_changes while the log has fewer than MaxHistory lines.
TrackChanges(flats, mark_missing_as_removed, track_history, ord) ==
    /\ Len(history["siteA"]) < MaxHistory
    /\ SaveApartmentsWithChanges("siteA", flats, mark_missing_as_removed, track_history, ord)

GetChangeHistory(site_name, limit) ==
    /\ call = NoCall
    /\ call' = [op |-> "get_change_history", site_name |-> site_name, limit |-> limit]
    /\ ret' = [op |-> "get_change_history",
               changes |-> get_change_history(history[site_name], limit)]
    /\ pre' = files
    /\ UNCHANGED <<files, history, clock>>

NextHistory ==
    \/ Tick
    \/ Return
    \/ \E flats \in HistoryBatches, mark \in BOOLEAN, track_history \in BOOLEAN, ord \in Orders :
          TrackChanges(flats, mark, track_history, ord)
    \/ \E limit \in Limits : GetChangeHistory("siteA", limit)

SpecHistory == Init /\ [][NextHistory]_vars

(***************************************************************************)
(* The store step by step: calls of concurrent processes, each one reading *)
(* the document, opening it for writing and writing it, and calls that are *)
(* interrupted on the way                                                  *)
(***************************************************************************)
Procs == {"p1", "p2"}
StepBatches == SeqsUpTo({Flat1, Flat2}, MaxStepBatch)

\* A file that json.load does not parse: Truncated is the file that
\* open(site_file, "w") leaves until the document is written out, Garbled a
\* document followed by the rest of a longer one.
Truncated == [exists |-> TRUE, text |-> "truncated"]
Garbled == [exists |-> TRUE, text |-> "garbled"]
Malformed(file) == file.exists /\ "text" \in DOMAIN file

\* The length of the text of a document: the records of the flats used here
\* are written with the same number of characters.
DocLen(doc) == Cardinality(DOMAIN doc.apartments)

\* The files that writing the text of doc from offset 0 can leave, when the
\* file holds on_disk.
Overwrite(on_disk, doc) ==
    IF on_disk = Truncated THEN {doc}
    ELSE IF on_disk = Garbled THEN {doc, Garbled}
    ELSE IF DocLen(on_disk) > DocLen(doc) THEN {Garbled} ELSE {doc}

\* open(site_file, "w")
OpenForWriting(on_disk) == Truncated

IdleCall == [op |-> "none", pc |-> "idle"]
Found(file) == IF ~file.exists THEN "missing" ELSE IF Malformed(file) THEN "malformed" ELSE "document"

InitSteps ==
    /\ files = [s \in Sites |-> NoFile]
    /\ history = [s \in Sites |-> <<>>]
    /\ clock = 0
    /\ call = [p \in Procs |-> IdleCall]
    /\ ret = [p \in Procs |-> NoRet]
    /\ pre = files

\* get_apartments: json.load raises on a file it does not parse.
GetApartments(p, site_name) ==
    /\ call[p].pc = "idle"
    /\ call' = [call EXCEPT ![p] =
                  [op |-> "get_apartments",
                   pc |-> IF Malformed(files[site_name]) THEN "raised" ELSE "returned",
                   site_name |-> site_name, found |-> Found(files[site_name])]]
    /\ ret' = [ret EXCEPT ![p] =
                  IF Malformed(files[site_name]) THEN [op |-> "JSONDecodeError"]
                  ELSE [op |-> "get_apartments",
                        apartments |-> get_apartments(files, site_name)]]
    /\ UNCHANGED <<files, history, clock, pre>>

\* save_apartments up to the call of _write_site_data: the document is read
\* and the new one is computed; racing are the calls on the same site that
\* have read the document and not yet opened it for writing.
BeginSave(p, site_name, flats, mark_missing_as_removed, ord) ==
    /\ call[p].pc = "idle"
    /\ IF Malformed(files[site_name])
       THEN /\ call' = [call EXCEPT ![p] =
                          [op |-> "save_apartments", pc |-> "raised",
                           site_name |-> site_name, flats |-> flats,
                           found |-> "malformed"]]
            /\ ret' = [ret EXCEPT ![p] = [op |-> "JSONDecodeError"]]
       ELSE LET r == save_apartments(files, site_name, flats, mark_missing_as_removed,
                                     clock, ord)
            IN /\ call' = [call EXCEPT ![p] =
                             [op |-> "save_apartments", pc |-> "read",
                              site_name |-> site_name, flats |-> flats,
                              found |-> Found(files[site_name]),
                              read |-> files[site_name], doc |-> r.file,
                              new_ids |-> r.new_ids, updated_ids |-> r.updated_ids,
                              removed_ids |-> r.removed_ids,
                              racing |-> {q \in Procs \ {p} :
                                            /\ call[q].pc = "read"
                                            /\ call[q].site_name = site_name},
                              later_than |-> {}]]
               /\ UNCHANGED ret
    /\ UNCHANGED <<files, history, clock, pre>>

\* _write_site_data, open(site_file, "w"): the file is emptied.
OpenFile(p) ==
    /\ call[p].pc = "read"
    /\ files' = [files EXCEPT ![call[p].site_name] = OpenForWriting(@)]
    /\ call' = [call EXCEPT ![p].pc = "opened"]
    /\ UNCHANGED <<history, clock, ret, pre>>

\* _write_site_data, the end of the with block: the text is written out, and
\* save_apartments returns its three lists; later_than are the racing calls
\* that have written their document before.
CloseFile(p) ==
    /\ call[p].pc = "opened"
    /\ \E out \in Overwrite(files[call[p].site_name], call[p].doc) :
          files' = [files EXCEPT ![call[p].site_name] = out]
    /\ call' = [call EXCEPT ![p].pc = "returned",
                            ![p].later_than = {q \in Procs \ {p} :
                                                 /\ call[q].pc = "returned"
                                                 /\ call[q].op = "save_apartments"
                                                 /\ call[q].site_name = call[p].site_name
                                                 /\ p \in call[q].racing \/ q \in call[p].racing}]
    /\ ret' = [ret EXCEPT ![p] =
                  [op |-> "save_apartments", new_ids |-> call[p].new_ids,
                   updated_ids |-> call[p].updated_ids,
                   removed_ids |-> call[p].removed_ids]]
    /\ UNCHANGED <<history, clock, pre>>

\* The process is killed in the middle of save_apartments: what it has not
\* written out is lost.
Interrupt(p) ==
    /\ call[p].pc \in {"read", "opened"}
    /\ call' = [call EXCEPT ![p].pc = "interrupted"]
    /\ UNCHANGED <<files, history, clock, ret, pre>>

\* The caller is done with the call, or a new run starts after an
\* interrupted one.
Done(p) ==
    /\ call[p].pc \in {"returned", "raised", "interrupted"}
    /\ call' = [q \in Procs |->
                  IF q = p THEN IdleCall
                  ELSE IF "racing" \in DOMAIN call[q]
                       THEN [call[q] EXCEPT !.racing = @ \ {p}, !.later_than = @ \ {p}]
                       ELSE call[q]]
    /\ ret' = [ret EXCEPT ![p] = NoRet]
    /\ UNCHANGED <<files, history, clock, pre>>

NextSteps ==
    \/ \E p \in Procs : GetApartments(p, "siteA")
    \/ \E p \in Procs, flats \in StepBatches, mark \in BOOLEAN, ord \in Orders :
          BeginSave(p, "siteA", flats, mark, ord)
    \/ \E p \in Procs : OpenFile(p)
    \/ \E p \in Procs : CloseFile(p)
    \/ \E p \in Procs : Interrupt(p)
    \/ \E p \in Procs : Done(p)

SpecSteps == InitSteps /\ [][NextSteps]_vars

(***************************************************************************)
(* The text of a document: dictionaries with their insertion order, and    *)
(* what json.dump writes for them                                          *)
(***************************************************************************)
\* A dict is the sequence of its <<key, value>> pairs in insertion order.
Keys(pairs) == [i \in DOMAIN pairs |-> pairs[i][1]]
Lookup(pairs, key) == pairs[CHOOSE i \in DOMAIN pairs : pairs[i][1] = key][2]

\* The keys used in a document in the order of Python's comparison of strings.
KeyOrder ==
    <<"apartment_id", "apartments", "data", "description", "first_seen", "found_at", "id",
      "image_url", "last_scrape", "last_seen", "last_updated", "location", "markers",
      "price", "rooms", "site", "siteA-01", "siteA-02", "size", "source", "status",
      "title", "url">>
sorted(keys) == SelectSeq(KeyOrder, LAMBDA k : k \in Range(keys))

RECURSIVE Concat(_)
Concat(texts) == IF texts = <<>> THEN <<>> ELSE Head(texts) \o Concat(Tail(texts))

\* Mutant: the keys are written in insertion order.
EmitOrder_Insertion(pairs, sort_keys) == Keys(pairs)

\* json.dump(..., sort_keys=True) writes the items of a dict sorted by key.
EmitOrder(pairs, sort_keys) == IF sort_keys THEN sorted(Keys(pairs)) ELSE Keys(pairs)

\* The text of a dict as a sequence of tokens. kind tells what the dict is:
\* the document, its apartments, one apartment, or the data of a flat
\* (strings, null, and the list of markers).
RECURSIVE DumpDict(_, _, _)
DumpDict(pairs, sort_keys, kind) ==
    LET keys == EmitOrder(pairs, sort_keys)
        value_text(k, v) ==
            CASE kind = "document" ->
                    IF k = "apartments" THEN DumpDict(v, sort_keys, "apartments") ELSE <<v>>
              [] kind = "apartments" -> DumpDict(v, sort_keys, "apartment")
              [] kind = "apartment" ->
                    IF k = "data" THEN DumpDict(v, sort_keys, "data") ELSE <<v>>
              [] kind = "data" ->
                    IF k = "markers" THEN <<"[">> \o v \o <<"]">> ELSE <<v>>
    IN <<"{">> \o Concat([i \in DOMAIN keys |->
                              <<keys[i], ":">> \o value_text(keys[i], Lookup(pairs, keys[i]))])
             \o <<"}">>

\* json.dump(data_dict, f, indent=2, ensure_ascii=False, sort_keys=True)
json_dump(data_dict, sort_keys) == DumpDict(data_dict, sort_keys, "document")

\* _write_site_data on a site_data whose dicts keep their insertion order: the
\* text written to the file.
WriteText(site_data) ==
    LET apt_ids == sorted(Keys(site_data.apartments))
        apartments ==
            [i \in DOMAIN apt_ids |->
                LET apt == Lookup(site_data.apartments, apt_ids[i])
                IN <<apt_ids[i],
                     << <<"apartment_id", apt.apartment_id>>,
                        <<"status", apt.status>>,
                        <<"first_seen", isoformat(apt.first_seen)>>,
                        <<"last_seen", isoformat(apt.last_seen)>>,
                        <<"last_updated", isoformat(apt.last_updated)>>,
                        <<"data", apt.data>> >> >>]
        data_dict == << <<"site", site_data.site>>,
                        <<"last_scrape", isoformat(site_data.last_scrape)>>,
                        <<"apartments", apartments>> >>
    IN json_dump(data_dict, TRUE) \o <<"\n">>

\* The data of a flat as model_dump builds it (the fields in the order of
\* the class) and as json.load reads it from a document (the keys sorted).
FlatFields ==
    <<"id", "title", "url", "price", "size", "rooms", "location", "description",
      "image_url", "source", "markers", "found_at">>
OrderedData(flat, fields) == [i \in DOMAIN fields |-> <<fields[i], model_dump(flat)[fields[i]]>>]
OrderedApartments ==
    {ApartmentMetadata(flat.id, "active", 0, MaxTime, MaxTime, OrderedData(flat, fields)) :
        flat \in {Flat1, [Flat1 EXCEPT !.price = "1100.0"], [Flat2 EXCEPT !.markers = <<"neubau">>]},
        fields \in {FlatFields, sorted(FlatFields)}}

\* site_data.apartments: the records read from the document, then the new
\* ones in the order of the batch.
OrderedSiteData ==
    {SiteStorageData("siteA", MaxTime, [i \in DOMAIN apts |-> <<apts[i].apartment_id, apts[i]>>]) :
        apts \in {a \in SeqsUpTo(OrderedApartments, MaxWritten) :
                     \A i, j \in DOMAIN a : a[i].apartment_id = a[j].apartment_id => i = j}}

\* What a site_data holds, whatever the insertion order of its dicts.
AsMap(pairs) == [k \in Range(Keys(pairs)) |-> Lookup(pairs, k)]
Logical(site_data) ==
    [site |-> site_data.site, last_scrape |-> site_data.last_scrape,
     apartments |-> [id \in Range(Keys(site_data.apartments)) |->
        LET apt == Lookup(site_data.apartments, id)
        IN [apt EXCEPT !.data = AsMap(apt.data)]]]

InitWrite ==
    /\ files = [s \in Sites |-> NoFile]
    /\ history = [s \in Sites |-> <<>>]
    /\ clock = 0
    /\ \E first \in OrderedSiteData, second \in OrderedSiteData :
          call = [op |-> "write", first |-> first, second |-> second]
    /\ ret = NoRet
    /\ pre = files

\* The texts written so far for the two site_data of the call.
Texts == IF ret.op = "write" THEN ret.texts ELSE EmptyMap

WriteFirst ==
    /\ "first" \notin DOMAIN Texts
    /\ ret' = [op |-> "write", texts |-> Put(Texts, "first", WriteText(call.first))]
    /\ UNCHANGED <<files, history, clock, call, pre>>

WriteSecond ==
    /\ "second" \notin DOMAIN Texts
    /\ ret' = [op |-> "write", texts |-> Put(Texts, "second", WriteText(call.second))]
    /\ UNCHANGED <<files, history, clock, call, pre>>

NextWrite ==
    \/ WriteFirst
    \/ WriteSecond

SpecWrite == InitWrite /\ [][NextWrite]_vars

(***************************************************************************)
(* scrapers/base.py: the id of a flat                                      *)
(***************************************************************************)
ScraperNames == {"example", "siteA"}
Urls == {"https://example.com/flat/123", "https://example.com/flat/456",
         "https://example.com/flat/123/", "https://example.com/flat/123?ref=1"}

\* hashlib.md5(text.encode()).hexdigest() of the texts "<name>:<url>" above.
md5_hexdigest(text) ==
    CASE text = "example:https://example.com/flat/123" -> "8eb2c548d6bdad0126f7faffab1ab1ab"
      [] text = "example:https://example.com/flat/456" -> "248e0e1ea848769a77a1146b967409e6"
      [] text = "example:https://example.com/flat/123/" -> "6f3c03bdb6a19387d9c163a6dc85d189"
      [] text = "example:https://example.com/flat/123?ref=1" -> "ac0d353ad811ced2aae3858654ca2873"
      [] text = "siteA:https://example.com/flat/123" -> "79378f5f6644e43e7f52bd2f4f7205d4"
      [] text = "siteA:https://example.com/flat/456" -> "3f6c8576302db57a948fe311c783e0db"
      [] text = "siteA:https://example.com/flat/123/" -> "e814f92101250b22fe6f8c6f4ff45362"
      [] text = "siteA:https://example.com/flat/123?ref=1" -> "1be569b08afd21051ad6bb48b521d59b"

\* The number of hexadecimal digits of the digest that go into the id.
DigestLength == 16

\* Mutant: the id is made of the name of the scraper only.
generate_id_NameOnly(name, url) == name \o "-"

\* BaseScraper.generate_id of the scraper called name.
generate_id(name, url) ==
    LET hash_input == name \o ":" \o url
    IN name \o "-" \o SubSeq(md5_hexdigest(hash_input), 1, DigestLength)

IdCalls == [name : ScraperNames, url : Urls]

\* Two calls of generate_id, of one scraper or of two, in one run or in two.
InitIds ==
    /\ files = [s \in Sites |-> NoFile]
    /\ history = [s \in Sites |-> <<>>]
    /\ clock = 0
    /\ \E first \in IdCalls, second \in IdCalls :
          call = [op |-> "generate_id", first |-> first, second |-> second]
    /\ ret = NoRet
    /\ pre = files

\* The ids returned so far.
GeneratedIds == IF ret.op = "generate_id" THEN ret.ids ELSE EmptyMap

GenerateFirst ==
    /\ call.op = "generate_id"
    /\ "first" \notin DOMAIN GeneratedIds
    /\ ret' = [op |-> "generate_id",
               ids |-> Put(GeneratedIds, "first", generate_id(call.first.name, call.first.url))]
    /\ UNCHANGED <<files, history, clock, call, pre>>

GenerateSecond ==
    /\ call.op = "generate_id"
    /\ "second" \notin DOMAIN GeneratedIds
    /\ ret' = [op |-> "generate_id",
               ids |-> Put(GeneratedIds, "second", generate_id(call.second.name, call.second.url))]
    /\ UNCHANGED <<files, history, clock, call, pre>>

NextIds ==
    \/ GenerateFirst
    \/ GenerateSecond

SpecIds == InitIds /\ [][NextIds]_vars

(***************************************************************************)
(* Runs of scrapes: save_apartments called scrape after scrape; for each   *)
(* id the calls count how often it was in removed_ids since it was last in *)
(* a batch                                                                 *)
(***************************************************************************)
RunBatches ==
    {<<>>, <<Flat1>>, <<Flat2>>, <<Flat1, Flat2>>, <<[Flat1 EXCEPT !.price = "1100.0"]>>}

\* How often each id was listed as removed in the scrapes before this one.
ListedBefore == IF call.op = "save_apartments" THEN call.listed ELSE [id \in Ids |-> 0]

\* The next scrape of the site, at a time now that is not before the last one.
Scrape(flats, mark_missing_as_removed, now, ord) ==
    LET r == save_apartments(files, "siteA", flats, mark_missing_as_removed, now, ord)
        in_batch == {flats[i].id : i \in DOMAIN flats}
        times(id) == Cardinality({i \in DOMAIN r.removed_ids : r.removed_ids[i] = id})
    IN /\ now >= clock
       /\ files' = [files EXCEPT !["siteA"] = r.file]
       /\ call' = [op |-> "save_apartments", site_name |-> "siteA", flats |-> flats,
                   mark_missing_as_removed |-> mark_missing_as_removed, now |-> now,
                   again |-> FALSE,
                   listed |-> [id \in Ids |-> IF id \in in_batch THEN 0
                                              ELSE ListedBefore[id] + times(id)]]
       /\ ret' = [op |-> "save_apartments", new_ids |-> r.new_ids,
                  updated_ids |-> r.updated_ids, removed_ids |-> r.removed_ids]
       /\ pre' = files
       /\ clock' = now
       /\ UNCHANGED history

NextRuns ==
    \E flats \in RunBatches, mark \in BOOLEAN, now \in Times, ord \in Orders :
        Scrape(flats, mark, now, ord)

SpecRuns == Init /\ [][NextRuns]_vars

(***************************************************************************)
(* The data directory by file name: the documents and the change logs of   *)
(* the sites are the files that _get_site_file and _save_change_history    *)
(* name, and the calls on one site run between calls on another            *)
(***************************************************************************)
\* Mutant: every site is stored in the same file.
_get_site_file_Shared(site_name) == "apartments.json"

\* self.data_dir / f"{site_name}.json", relative to data_dir
_get_site_file(site_name) == site_name \o ".json"

\* self.data_dir / f"{site_name}_history.jsonl", relative to data_dir
history_file(site_name) == site_name \o "_history.jsonl"

\* The documents of the sites that a data directory holds.
DocumentsOf(disk) == [s \in Sites |-> disk[_get_site_file(s)]]

SiteBatches == {<<>>, <<Flat1>>}

\* A run starts at any time, on an empty data directory.
InitSites ==
    /\ files = [path \in {_get_site_file(s) : s \in Sites} |-> NoFile]
    /\ history = [path \in {history_file(s) : s \in Sites} |-> <<>>]
    /\ clock \in Times
    /\ call = NoCall
    /\ ret = NoRet
    /\ pre = [files |-> files, history |-> history]

ReturnSites ==
    /\ call # NoCall
    /\ call' = NoCall
    /\ ret' = NoRet
    /\ pre' = [files |-> files, history |-> history]
    /\ UNCHANGED <<files, history, clock>>

\* save_apartments on the file of the site.
SiteSave(site_name, flats, mark_missing_as_removed, ord) ==
    LET r == save_apartments(DocumentsOf(files), site_name, flats, mark_missing_as_removed,
                             clock, ord)
    IN /\ call = NoCall
       /\ files' = [files EXCEPT ![_get_site_file(site_name)] = r.file]
       /\ call' = [op |-> "save_apartments", site_name |-> site_name, flats |-> flats,
                   mark_missing_as_removed |-> mark_missing_as_removed, now |-> clock]
       /\ ret' = [op |-> "save_apartments", new_ids |-> r.new_ids,
                  updated_ids |-> r.updated_ids, removed_ids |-> r.removed_ids]
       /\ pre' = [files |-> files, history |-> history]
       /\ UNCHANGED <<history, clock>>

\* The lines of all the change logs of the data directory.
LogLines == Len(history[history_file("siteA")]) + Len(history[history_file("siteB")])

\* save_apartments_with_changes on the file and the log of the site, while
\* the logs have fewer than MaxHistory lines.
SiteSaveWithChanges(site_name, flats, mark_missing_as_removed, track_history, ord) ==
    LET apartments == get_apartments(DocumentsOf(files), site_name)
        old_apartments == [apt_id \in DOMAIN apartments |-> apartments[apt_id].data]
        changes == detect_changes(ChangeDetectorConfig, old_apartments, flats, clock, ord)
        r == save_apartments(DocumentsOf(files), site_name, flats, mark_missing_as_removed,
                             clock, ord)
    IN /\ call = NoCall
       /\ LogLines < MaxHistory
       /\ files' = [files EXCEPT ![_get_site_file(site_name)] = r.file]
       /\ history' = IF track_history /\ changes # <<>>
                     THEN [history EXCEPT ![history_file(site_name)] =
                                             _save_change_history(@, changes)]
                     ELSE history
       /\ call' = [op |-> "save_apartments_with_changes", site_name |-> site_name,
                   flats |-> flats, mark_missing_as_removed |-> mark_missing_as_removed,
                   track_history |-> track_history, now |-> clock]
       /\ ret' = [op |-> "save_apartments_with_changes", changes |-> changes]
       /\ pre' = [files |-> files, history |-> history]
       /\ UNCHANGED clock

NextSites ==
    \/ ReturnSites
    \/ \E site_name \in {"siteA", "siteB"}, flats \in SiteBatches, mark \in BOOLEAN,
          ord \in Orders :
          SiteSave(site_name, flats, mark, ord)
    \/ \E site_name \in {"siteA", "siteB"}, flats \in SiteBatches, mark \in BOOLEAN,
          track_history \in BOOLEAN, ord \in Orders :
          SiteSaveWithChanges(site_name, flats, mark, track_history, ord)

SpecSites == InitSites /\ [][NextSites]_vars

(***************************************************************************)
(* main.py: one run of the program after another; a run migrates the       *)
(* legacy file if there is one, runs the scrapers one by one and then      *)
(* reconciles the sites one by one                                         *)
(***************************************************************************)
\* The registered scrapers in the order of the registry, and what a scrape
\* of each can find: every scraper builds its flats with source = self.name.
SCRAPERS == <<"siteA", "siteB">>
Scraped(name) ==
    IF name = "siteA"
    THEN {<<>>, <<Flat1>>, <<Flat1, [Flat1 EXCEPT !.price = "1100.0"]>>}
    ELSE {<<>>, <<Flat2B>>}

\* The legacy file data_dir/flats.json is kept in files under its name.
LegacyPath == "flats.json"
MainLegacyFiles == {NoFile, [exists |-> TRUE, flats |-> <<LegacyEntry(Flat1, TRUE)>>]}

ScraperResult(flats, source, health_status) ==
    [flats |-> flats, source |-> source, health_status |-> health_status]

\* BaseScraper.check_health with minimum_expected_results = 1
check_health(results) == IF Len(results) = 0 THEN "unhealthy" ELSE "healthy"

RECURSIVE DedupLoop(_, _, _)
DedupLoop(flats, seen_ids, unique_flats) ==
    IF flats = <<>> THEN unique_flats
    ELSE IF Head(flats).id \notin seen_ids
         THEN DedupLoop(Tail(flats), seen_ids \cup {Head(flats).id},
                        Append(unique_flats, Head(flats)))
         ELSE DedupLoop(Tail(flats), seen_ids, unique_flats)

\* The first flat of every id, in the order of the list.
deduplicate_flats(flats) == DedupLoop(flats, {}, <<>>)

\* flats_by_site[flat.source or "unknown"].append(flat): the sites in the
\* order of their first flat.
RECURSIVE OrganizeLoop(_, _)
OrganizeLoop(flats, acc) ==
    IF flats = <<>> THEN acc
    ELSE LET flat == Head(flats)
             site == IF flat.source = "" THEN "unknown" ELSE flat.source
             next == IF site \in DOMAIN acc.flats
                     THEN [acc EXCEPT !.flats[site] = Append(@, flat)]
                     ELSE [sites |-> Append(acc.sites, site),
                           flats |-> Put(acc.flats, site, <<flat>>)]
         IN OrganizeLoop(Tail(flats), next)

\* Mutant: every scraper that ran has an entry, also one without flats.
FlatsBySite_EveryScraper(results) ==
    [sites |-> [i \in DOMAIN results |-> results[i].source],
     flats |-> [site \in {results[i].source : i \in DOMAIN results} |->
                  Concat([i \in DOMAIN results |->
                            IF results[i].source = site THEN results[i].flats ELSE <<>>])]]

\* flats_by_site of the results of run_all_scrapers.
FlatsBySite(results) ==
    OrganizeLoop(Concat([i \in DOMAIN results |-> results[i].flats]),
                 [sites |-> <<>>, flats |-> EmptyMap])

\* The first run finds an empty data directory, with or without the file of
\* the version before.
InitMain ==
    /\ \E legacy_file \in MainLegacyFiles :
          files = [s \in Sites \cup {LegacyPath} |->
                     IF s = LegacyPath THEN legacy_file ELSE NoFile]
    /\ history = [s \in Sites |-> <<>>]
    /\ clock = 0
    /\ call = NoCall
    /\ ret = NoRet
    /\ pre = files

\* main up to run_all_scrapers: the legacy file, if there is one, is migrated
\* and renamed.
StartMain(ord) ==
    LET migrated ==
          IF files[LegacyPath].exists
          THEN [migrate_from_legacy(files, files[LegacyPath], "legacy", clock, ord)
                   EXCEPT ![LegacyPath] = NoFile]
          ELSE files
    IN /\ call = NoCall
       /\ files' = migrated
       /\ call' = [op |-> "main", pc |-> "scrape", results |-> <<>>, sites |-> <<>>,
                   flats_by_site |-> EmptyMap, reconciled |-> <<>>, before |-> migrated]
       /\ ret' = [op |-> "main", all_changes |-> <<>>]
       /\ pre' = files
       /\ UNCHANGED <<history, clock>>

\* run_all_scrapers, one turn of its loop: the next scraper of the registry
\* returns flats, or raises and gets a failed result without flats.
RunScraper(failed, flats) ==
    /\ call.op = "main"
    /\ call.pc = "scrape"
    /\ Len(call.results) < Len(SCRAPERS)
    /\ LET name == SCRAPERS[Len(call.results) + 1]
       IN /\ flats \in Scraped(name)
          /\ call' = [call EXCEPT !.results =
                         Append(@, IF failed THEN ScraperResult(<<>>, name, "failed")
                                   ELSE ScraperResult(flats, name, check_health(flats)))]
    /\ UNCHANGED <<files, history, clock, ret, pre>>

\* main, after run_all_scrapers has returned: the flats are put by site.
Organize ==
    /\ call.op = "main"
    /\ call.pc = "scrape"
    /\ Len(call.results) = Len(SCRAPERS)
    /\ call' = [call EXCEPT !.pc = "reconcile",
                            !.sites = FlatsBySite(call.results).sites,
                            !.flats_by_site = FlatsBySite(call.results).flats]
    /\ UNCHANGED <<files, history, clock, ret, pre>>

\* main, one turn of the loop over flats_by_site: the flats of the site are
\* deduplicated and given to save_apartments_with_changes.
Reconcile(ord) ==
    /\ call.op = "main"
    /\ call.pc = "reconcile"
    /\ call.sites # <<>>
    /\ LET site_name == Head(call.sites)
           site_flats == deduplicate_flats(call.flats_by_site[site_name])
           apartments == get_apartments(files, site_name)
           old_apartments == [apt_id \in DOMAIN apartments |-> apartments[apt_id].data]
           changes == detect_changes(ChangeDetectorConfig, old_apartments, site_flats,
                                     clock, ord)
           r == save_apartments(files, site_name, site_flats, TRUE, clock, ord)
       IN /\ files' = [files EXCEPT ![site_name] = r.file]
          /\ call' = [call EXCEPT !.sites = Tail(@), !.reconciled = Append(@, site_name)]
          /\ ret' = [ret EXCEPT !.all_changes = @ \o changes]
    /\ UNCHANGED <<history, clock, pre>>

\* main after the loop: the changes are counted and the emails are sent.
Finish ==
    /\ call.op = "main"
    /\ call.pc = "reconcile"
    /\ call.sites = <<>>
    /\ call' = [call EXCEPT !.pc = "done"]
    /\ UNCHANGED <<files, history, clock, ret, pre>>

\* The run is over; the next one starts some time later.
EndMain ==
    /\ call.op = "main"
    /\ call.pc = "done"
    /\ call' = NoCall
    /\ ret' = NoRet
    /\ pre' = files
    /\ UNCHANGED <<files, history, clock>>

NextMain ==
    \/ Tick
    \/ \E ord \in Orders : StartMain(ord)
    \/ \E failed \in BOOLEAN, flats \in Scraped("siteA") \cup Scraped("siteB") :
          RunScraper(failed, flats)
    \/ Organize
    \/ \E ord \in Orders : Reconcile(ord)
    \/ Finish
    \/ EndMain

SpecMain == InitMain /\ [][NextMain]_vars

(***************************************************************************)
(* The change detector alone: detect_changes and the two filters applied   *)
(* to arguments drawn from bounded sets                                    *)
(***************************************************************************)
DetectFlats == Flats \cup {[Flat1 EXCEPT !.title = "Flat 1 (renovated)"],
                           [Flat1 EXCEPT !.price = "1100.0", !.found_at = 1]}
DetectBatches == SeqsUpTo(DetectFlats, MaxBatch)
OldApartments ==
    UNION {[S -> {model_dump(flat) : flat \in DetectFlats}] : S \in SUBSET Ids}
Configs ==
    {[monitored_fields |-> m, ignore_fields |-> i] :
        m \in {ChangeDetectorConfig.monitored_fields, <<"price">>, <<"price", "found_at">>},
        i \in {ChangeDetectorConfig.ignore_fields, <<>>, <<"price">>}}
DetectCalls ==
    {[op |-> "detect_changes", config |-> c, old_apartments |-> o, new_apartments |-> n] :
        c \in Configs,
        o \in {a \in OldApartments : \A id \in DOMAIN a : a[id].id = id},
        n \in DetectBatches}

SomeChanges ==
    {ApartmentChange(type, "siteA-01", 0, changes, model_dump(Flat1)) :
        type \in {"new", "updated", "removed"},
        changes \in {EmptyMap,
                     [f \in {"price"} |-> <<"1000.0", "1100.0">>],
                     [f \in {"title"} |-> <<"Flat 1", "Flat 1 (renovated)">>]}}
FilterCalls == {[op |-> "filters", changes |-> c] : c \in SeqsUpTo(SomeChanges, MaxChanges)}

InitDetector ==
    /\ files = [s \in Sites |-> NoFile]
    /\ history = [s \in Sites |-> <<>>]
    /\ clock = 0
    /\ call \in DetectCalls \cup FilterCalls
    /\ ret = NoRet
    /\ pre = files

DetectChanges(ord) ==
    /\ call.op = "detect_changes"
    /\ ret = NoRet
    /\ ret' = [op |-> "detect_changes",
               changes |-> detect_changes(call.config, call.old_apartments,
                                          call.new_apartments, clock, ord)]
    /\ UNCHANGED <<files, history, clock, call, pre>>

\* The results of the filters called so far on the change list of the call.
Results == IF ret.op = "filters" THEN ret.results ELSE EmptyMap

GetSignificantChanges ==
    /\ call.op = "filters"
    /\ "significant" \notin DOMAIN Results
    /\ ret' = [op |-> "filters",
               results |-> Put(Results, "significant", get_significant_changes(call.changes))]
    /\ UNCHANGED <<files, history, clock, call, pre>>

GetPriceChanges ==
    /\ call.op = "filters"
    /\ "price" \notin DOMAIN Results
    /\ ret' = [op |-> "filters",
               results |-> Put(Results, "price", get_price_changes(call.changes))]
    /\ UNCHANGED <<files, history, clock, call, pre>>

NextDetector ==
    \/ \E ord \in Orders : DetectChanges(ord)
    \/ GetSignificantChanges
    \/ GetPriceChanges

SpecDetector == InitDetector /\ [][NextDetector]_vars

(***************************************************************************)
(* Properties                                                              *)
(***************************************************************************)
Saved == call.op = "save_apartments"
WithChanges == call.op = "save_apartments_with_changes"

\* The apartments of the site of the recorded call before and after the call.
PreApts == get_apartments(pre, call.site_name)
PostApts == get_apartments(files, call.site_name)
OldIds == DOMAIN PreApts
NewIds == {call.flats[i].id : i \in DOMAIN call.flats}

\* The dumps of the flats of the batch that carry the id, and the last of them.
DumpsOf(id) == {model_dump(call.flats[i]) : i \in {j \in DOMAIN call.flats : call.flats[j].id = id}}
LastDump(flats, id) ==
    model_dump(flats[CHOOSE i \in DOMAIN flats :
                        /\ flats[i].id = id
                        /\ \A j \in DOMAIN flats : flats[j].id = id => j <= i])

DistinctIds(flats) == \A i, j \in DOMAIN flats : flats[i].id = flats[j].id => i = j

MonitoredFields(config) == Range(config.monitored_fields) \ Range(config.ignore_fields)
MonitoredDiffer(config, old_data, new_data) ==
    \E f \in MonitoredFields(config) : old_data[f] # new_data[f]

\* C1: the set of ids stored for a site only grows: no step of the store
\* removes an id from a site's document, and an id that is missing from a
\* batch stays in the document.
C1_KeysOnlyGrow ==
    [][\A s \in Sites : DOMAIN get_apartments(files, s) \subseteq DOMAIN get_apartments(files', s)]_vars

C1_Witness ==
    /\ Saved
    /\ \E id \in OldIds \ NewIds :
          /\ PreApts[id].status = "active"
          /\ id \in DOMAIN PostApts
          /\ PostApts[id].status = "removed"

\* C2 as claimed: with mark_missing_as_removed, save_apartments reports exactly
\* new_ids - old_ids as new and exactly old_ids - new_ids as removed.
C2_Original ==
    (Saved /\ call.mark_missing_as_removed) =>
        /\ Range(ret.new_ids) = NewIds \ OldIds
        /\ Range(ret.removed_ids) = OldIds \ NewIds

\* C2 as amended: with mark_missing_as_removed, save_apartments reports exactly
\* new_ids - old_ids as new, and as removed exactly the ids of old_ids - new_ids
\* whose stored status was active.
C2_Amended ==
    (Saved /\ call.mark_missing_as_removed) =>
        /\ Range(ret.new_ids) = NewIds \ OldIds
        /\ Range(ret.removed_ids) = {id \in OldIds \ NewIds : PreApts[id].status = "active"}

C2_Witness ==
    /\ Saved
    /\ call.mark_missing_as_removed
    /\ ret.new_ids # <<>>
    /\ ret.removed_ids # <<>>

\* C3 as claimed, for a batch of distinct ids: a stored id of the batch is
\* reported as updated if and only if its monitored data differs from the
\* stored data.
C3_Original ==
    (Saved /\ DistinctIds(call.flats)) => \A id \in OldIds \cap NewIds :
                id \in Range(ret.updated_ids) <=>
                    \E d \in DumpsOf(id) : MonitoredDiffer(ChangeDetectorConfig, PreApts[id].data, d)

\* C3 as amended: a stored id of the batch is reported as updated if and only if
\* the serialized data of a flat with that id differs from the stored data in
\* any field, or the stored record was removed.
C3_Amended ==
    Saved => \A id \in OldIds \cap NewIds :
                id \in Range(ret.updated_ids) <=>
                    \/ PreApts[id].status = "removed"
                    \/ \E d \in DumpsOf(id) : d # PreApts[id].data

C3_Witness ==
    /\ Saved
    /\ \E id \in OldIds \cap NewIds :
          /\ PreApts[id].status = "active"
          /\ id \in Range(ret.updated_ids)
          /\ \A d \in DumpsOf(id) :
                /\ ~MonitoredDiffer(ChangeDetectorConfig, PreApts[id].data, d)
                /\ d.found_at # PreApts[id].data.found_at

\* C4: a removed record submitted again with data identical to the stored data
\* is reported as updated, not as new, and its stored status is active again.
C4_Reactivation ==
    Saved => \A id \in OldIds \cap NewIds :
                (PreApts[id].status = "removed" /\ DumpsOf(id) = {PreApts[id].data}) =>
                    /\ id \in Range(ret.updated_ids)
                    /\ id \notin Range(ret.new_ids)
                    /\ PostApts[id].status = "active"

C4_Witness ==
    /\ Saved
    /\ \E id \in OldIds \cap NewIds :
          /\ PreApts[id].status = "removed"
          /\ DumpsOf(id) = {PreApts[id].data}
          /\ PostApts[id].status = "active"

\* The second call left the document as it was, except last_scrape and
\* last_seen of the records of the batch.
OnlySeenAdvanced ==
    /\ \A s \in Sites \ {call.site_name} : files[s] = pre[s]
    /\ pre[call.site_name].exists
    /\ files[call.site_name].site = pre[call.site_name].site
    /\ DOMAIN PostApts = DOMAIN PreApts
    /\ \A id \in DOMAIN PreApts :
          IF id \in NewIds
          THEN [PostApts[id] EXCEPT !.last_seen = PreApts[id].last_seen] = PreApts[id]
          ELSE PostApts[id] = PreApts[id]

NothingReported ==
    /\ ret.new_ids = <<>>
    /\ ret.updated_ids = <<>>
    /\ ret.removed_ids = <<>>

\* Flats of the batch that share an id carry the same data.
NoConflict(flats) ==
    \A i, j \in DOMAIN flats : flats[i].id = flats[j].id => flats[i] = flats[j]

ChangesFor(changes, id) == {i \in DOMAIN changes : changes[i].apartment_id = id}

\* C6: the changes save_apartments_with_changes returns are the difference
\* between the store as it was before the call and the batch: a new change for
\* each id only in the batch, a removed change with the stored data for each
\* id only in the store, an updated change with (stored value, new value) for
\* each id in both whose monitored fields differ, and nothing else; and when
\* the call has returned the store holds the data of the batch.
C6_DiffThenPersist ==
    WithChanges =>
        /\ \A id \in NewIds \ OldIds :
              \E i \in ChangesFor(ret.changes, id) : ret.changes[i].change_type = "new"
        /\ \A id \in OldIds \ NewIds :
              \E i \in ChangesFor(ret.changes, id) :
                 /\ ret.changes[i].change_type = "removed"
                 /\ ret.changes[i].apartment_data = PreApts[id].data
        /\ \A id \in OldIds \cap NewIds :
              IF MonitoredDiffer(ChangeDetectorConfig, PreApts[id].data, LastDump(call.flats, id))
              THEN \E i \in ChangesFor(ret.changes, id) :
                      /\ ret.changes[i].change_type = "updated"
                      /\ DOMAIN ret.changes[i].changes # {}
                      /\ \A f \in DOMAIN ret.changes[i].changes :
                            ret.changes[i].changes[f] =
                               <<PreApts[id].data[f], LastDump(call.flats, id)[f]>>
              ELSE ChangesFor(ret.changes, id) = {}
        /\ \A id \in OldIds \cup NewIds : Cardinality(ChangesFor(ret.changes, id)) <= 1
        /\ \A i \in DOMAIN ret.changes : ret.changes[i].apartment_id \in OldIds \cup NewIds
        /\ \A id \in NewIds :
              /\ id \in DOMAIN PostApts
              /\ PostApts[id].data = LastDump(call.flats, id)
              /\ PostApts[id].status = "active"

C6_Witness ==
    /\ WithChanges
    /\ \E i \in DOMAIN ret.changes :
          /\ ret.changes[i].change_type = "updated"
          /\ "price" \in DOMAIN ret.changes[i].changes
          /\ PostApts[ret.changes[i].apartment_id].data.price = ret.changes[i].changes.price[2]
          /\ PreApts[ret.changes[i].apartment_id].data.price = ret.changes[i].changes.price[1]
    /\ \E i \in DOMAIN ret.changes : ret.changes[i].change_type = "new"

\* C7 as claimed: a removed change is returned for an id only by the call in
\* which the stored record goes from active to removed.
C7_RemovedOnlyOnTransition ==
    (WithChanges /\ call.mark_missing_as_removed) =>
        \A i \in DOMAIN ret.changes :
            ret.changes[i].change_type = "removed" =>
                /\ PreApts[ret.changes[i].apartment_id].status = "active"
                /\ PostApts[ret.changes[i].apartment_id].status = "removed"

\* C8: without mark_missing_as_removed, save_apartments reports nothing as
\* removed and leaves every stored record that is absent from the batch as it
\* was.
C8_NoRemovalWhenDisabled ==
    (Saved /\ ~call.mark_missing_as_removed) =>
        /\ ret.removed_ids = <<>>
        /\ \A id \in OldIds \ NewIds : id \in DOMAIN PostApts /\ PostApts[id] = PreApts[id]

C8_Witness ==
    /\ Saved
    /\ ~call.mark_missing_as_removed
    /\ \E id \in OldIds \ NewIds : PreApts[id].status = "active" /\ PostApts[id].status = "active"

\* C9: when the stored snapshot and the new flat of an id differ at most in
\* fields of ignore_fields, detect_changes returns no change for the id, also
\* when such a field is in monitored_fields too.
C9_IgnoredFieldsSilent ==
    ret.op = "detect_changes" =>
        \A id \in (DOMAIN call.old_apartments) \cap {call.new_apartments[i].id : i \in DOMAIN call.new_apartments} :
            (\A f \in (DOMAIN call.old_apartments[id]) \ Range(call.config.ignore_fields) :
                call.old_apartments[id][f] = LastDump(call.new_apartments, id)[f])
            => ChangesFor(ret.changes, id) = {}

C9_Witness ==
    /\ ret.op = "detect_changes"
    /\ "found_at" \in Range(call.config.monitored_fields)
    /\ "found_at" \in Range(call.config.ignore_fields)
    /\ \E id \in DOMAIN call.old_apartments :
          /\ \E i \in DOMAIN call.new_apartments : call.new_apartments[i].id = id
          /\ call.old_apartments[id].found_at # LastDump(call.new_apartments, id).found_at
          /\ \A f \in (DOMAIN call.old_apartments[id]) \ {"found_at"} :
                call.old_apartments[id][f] = LastDump(call.new_apartments, id)[f]
          /\ ChangesFor(ret.changes, id) = {}

\* result is the subsequence of changes, in their order, of the changes at
\* the positions kept.
IsSubsequenceAt(result, changes, kept) ==
    /\ Len(result) = Cardinality(kept)
    /\ \A j \in kept : result[Cardinality({k \in kept : k <= j})] = changes[j]

\* C10: get_significant_changes returns exactly the new and updated changes of
\* the list in their order, and get_price_changes exactly the updated changes
\* whose changes map has the key "price".
C10_Filters ==
    call.op = "filters" =>
        /\ "significant" \in DOMAIN Results =>
              IsSubsequenceAt(Results["significant"], call.changes,
                  {j \in DOMAIN call.changes : call.changes[j].change_type # "removed"})
        /\ "price" \in DOMAIN Results =>
              IsSubsequenceAt(Results["price"], call.changes,
                  {j \in DOMAIN call.changes :
                      /\ call.changes[j].change_type = "updated"
                      /\ "price" \in DOMAIN call.changes[j].changes})

C10_Witness ==
    /\ call.op = "filters"
    /\ DOMAIN Results = {"significant", "price"}
    /\ Len(Results["significant"]) = 2
    /\ Len(Results["price"]) = 1
    /\ Len(call.changes) = 3
    /\ \E j \in DOMAIN call.changes :
          call.changes[j].change_type = "new" /\ "price" \in DOMAIN call.changes[j].changes

\* C11: get_active_apartments returns exactly the records of get_apartments
\* whose status is active, and get_site_stats reports total = active + removed,
\* active the number of those records, and newest and oldest the greatest and
\* the least first_seen of the active records, or None when no record is active.
C11_ActiveAndStats ==
    LET apartments == get_apartments(files, call.site_name)
        active == {id \in DOMAIN apartments : apartments[id].status = "active"}
    IN /\ call.op = "get_active_apartments" =>
            /\ DOMAIN ret.apartments = active
            /\ \A id \in active : ret.apartments[id] = apartments[id]
       /\ call.op = "get_site_stats" =>
            /\ ret.stats.total = Cardinality(DOMAIN apartments)
            /\ ret.stats.total = ret.stats.active + ret.stats.removed
            /\ ret.stats.active = Cardinality(DOMAIN get_active_apartments(files, call.site_name))
            /\ IF active = {}
               THEN ret.stats.newest = None /\ ret.stats.oldest = None
               ELSE /\ \E id \in active : apartments[id].first_seen = ret.stats.newest
                    /\ \E id \in active : apartments[id].first_seen = ret.stats.oldest
                    /\ \A id \in active :
                          /\ apartments[id].first_seen <= ret.stats.newest
                          /\ apartments[id].first_seen >= ret.stats.oldest

C11_Witness ==
    /\ call.op = "get_site_stats"
    /\ ret.stats.active = 1
    /\ ret.stats.removed = 1
    /\ ret.stats.newest = 1
    /\ \E id \in DOMAIN get_apartments(files, call.site_name) :
          /\ get_apartments(files, call.site_name)[id].status = "removed"
          /\ get_apartments(files, call.site_name)[id].first_seen = 0

\* C12: get_apartments_with_markers returns exactly the stored records, only
\* the active ones with active_only, whose data.markers shares a marker with
\* marker_names: nothing for an empty marker_names, and never a record
\* whose data has no markers.
C12_MarkersFilter ==
    call.op = "get_apartments_with_markers" =>
        LET apartments == get_apartments(files, call.site_name)
            candidates == {id \in DOMAIN apartments :
                              call.active_only => apartments[id].status = "active"}
            matching == {id \in candidates :
                            /\ "markers" \in DOMAIN apartments[id].data
                            /\ Range(apartments[id].data.markers) \cap Range(call.marker_names) # {}}
        IN /\ DOMAIN ret.apartments = matching
           /\ \A id \in matching : ret.apartments[id] = apartments[id]
           /\ call.marker_names = <<>> => ret.apartments = EmptyMap
           /\ \A id \in DOMAIN ret.apartments : "markers" \in DOMAIN apartments[id].data

C12_Witness ==
    /\ call.op = "get_apartments_with_markers"
    /\ call.active_only
    /\ Len(call.marker_names) = 2
    /\ DOMAIN ret.apartments = {"siteA-01"}
    /\ Len(ret.apartments["siteA-01"].data.markers) = 1
    /\ Range(call.marker_names) \cap Range(ret.apartments["siteA-01"].data.markers) # {}
    /\ ~(Range(call.marker_names) \subseteq Range(ret.apartments["siteA-01"].data.markers))
    /\ "siteA-02" \in DOMAIN get_apartments(files, "siteA")
    /\ get_apartments(files, "siteA")["siteA-02"].status = "removed"
    /\ "markers" \in DOMAIN get_apartments(files, "siteA")["siteA-02"].data
    /\ Range(get_apartments(files, "siteA")["siteA-02"].data.markers) \cap Range(call.marker_names) # {}

\* A record without markers is stored and active, and a call that asks for
\* markers does not return it.
C12_WitnessNoMarkers ==
    /\ call.op = "get_apartments_with_markers"
    /\ call.marker_names # <<>>
    /\ \E id \in DOMAIN get_apartments(files, "siteA") :
          /\ "markers" \notin DOMAIN get_apartments(files, "siteA")[id].data
          /\ get_apartments(files, "siteA")[id].status = "active"
          /\ id \notin DOMAIN ret.apartments

\* C13 as claimed: a call that finds the site document missing or malformed
\* raises no error: get_apartments returns the empty map, and save_apartments
\* returns with every flat of the batch reported as new.
C13_MissingOrMalformedIsEmpty ==
    \A p \in Procs :
        (call[p].pc # "idle" /\ call[p].found \in {"missing", "malformed"}) =>
            /\ call[p].pc # "raised"
            /\ (call[p].op = "get_apartments" /\ call[p].pc = "returned") =>
                  ret[p].apartments = EmptyMap
            /\ (call[p].op = "save_apartments" /\ call[p].pc = "returned") =>
                  /\ Range(ret[p].new_ids) = {call[p].flats[i].id : i \in DOMAIN call[p].flats}
                  /\ ret[p].updated_ids = <<>>
                  /\ ret[p].removed_ids = <<>>

\* C16 as claimed: when two save_apartments calls on a site have both read the
\* document before either wrote and both have returned, the file is the
\* document of the call that wrote later, the records the earlier call
\* inserted are in the file only if the later call has them too, and neither
\* call got an error.
C16_LaterWriteReplaces ==
    \A p, q \in Procs :
        (/\ call[p].pc = "returned" /\ call[p].op = "save_apartments"
         /\ call[q].pc = "returned" /\ call[q].op = "save_apartments"
         /\ q \in call[p].later_than) =>
            /\ files[call[p].site_name] = call[p].doc
            /\ \A id \in Range(call[q].new_ids) :
                  id \in DOMAIN get_apartments(files, call[p].site_name) =>
                      id \in DOMAIN call[p].doc.apartments
            /\ ret[p].op = "save_apartments"
            /\ ret[q].op = "save_apartments"

\* C17 as claimed: while a save_apartments call is under way or has been
\* interrupted, and no other call is, the file of the site is the document the
\* call read or the document it writes.
C17_PreviousDocumentIntact ==
    \A p \in Procs :
        (/\ call[p].pc \in {"read", "opened", "interrupted"}
         /\ \A q \in Procs \ {p} : call[q].pc = "idle") =>
            files[call[p].site_name] \in {call[p].read, call[p].doc}

\* The changes of the log of the site of the call, oldest first.
Logged(h) == [i \in 1..Len(h[call.site_name]) |-> ParseLine(h[call.site_name][i])]

\* C14 as claimed: a save_apartments_with_changes call with track_history
\* appends the changes it returns to the log of the site, in their order, and
\* nothing when it returns none; get_change_history returns the changes of the
\* log newest first, all of them without a limit and the limit most recent
\* ones with a limit.
C14_AppendOnlyNewestFirst ==
    /\ (WithChanges /\ call.track_history) =>
          /\ Len(history[call.site_name]) >= Len(ret.changes)
          /\ SubSeq(Logged(history), Len(history[call.site_name]) - Len(ret.changes) + 1,
                    Len(history[call.site_name])) = ret.changes
    /\ call.op = "get_change_history" =>
          /\ Len(ret.changes) = IF call.limit = NoLimit \/ call.limit[1] > Len(Logged(history))
                                THEN Len(Logged(history)) ELSE call.limit[1]
          /\ \A i \in DOMAIN ret.changes :
                ret.changes[i] = Logged(history)[Len(Logged(history)) + 1 - i]

\* The append-only half of C14: no step but a save_apartments_with_changes call with track_history that
\* returns changes touches the log, and that call only adds lines at its end.
C14_AppendOnly ==
    [][\A s \in Sites :
          /\ Len(history'[s]) >= Len(history[s])
          /\ SubSeq(history'[s], 1, Len(history[s])) = history[s]
          /\ history'[s] # history[s] =>
                /\ call'.op = "save_apartments_with_changes"
                /\ call'.track_history
                /\ ret'.changes # <<>>]_vars

\* The site a legacy record is migrated to: the one its source names, and the
\* default site "legacy" of the call when the source is empty.
SiteOf(entry) == IF entry.data.source = "" THEN "legacy" ELSE entry.data.source

\* C15: migrate_from_legacy stores each record of the legacy file, active and
\* with its data, in the document of the site its source names; a stored
\* record that is not in the legacy file for its site is left as it was,
\* status included, a site no record names keeps its file, and a missing
\* legacy file changes nothing.
C15_MigrateBySource ==
    call.op = "migrate_from_legacy" =>
        IF ~call.legacy_file.exists THEN files = pre
        ELSE LET entries == call.legacy_file.flats
                 migrated(s) == {entries[i].id : i \in {j \in DOMAIN entries : SiteOf(entries[j]) = s}}
             IN /\ \A i \in DOMAIN entries :
                      LET apartments == get_apartments(files, SiteOf(entries[i]))
                      IN /\ entries[i].id \in DOMAIN apartments
                         /\ apartments[entries[i].id].status = "active"
                         /\ apartments[entries[i].id].data =
                               model_dump(LegacyFlat(entries[i].id, entries[i].data, call.now))
                /\ \A s \in Sites :
                      /\ migrated(s) = {} => files[s] = pre[s]
                      /\ DOMAIN get_apartments(files, s) = DOMAIN get_apartments(pre, s) \cup migrated(s)
                      /\ \A id \in DOMAIN get_apartments(pre, s) \ migrated(s) :
                            get_apartments(files, s)[id] = get_apartments(pre, s)[id]

C15_Witness ==
    /\ call.op = "migrate_from_legacy"
    /\ call.legacy_file.exists
    /\ {SiteOf(call.legacy_file.flats[i]) : i \in DOMAIN call.legacy_file.flats} = {"siteA", "siteB"}
    /\ \E id \in DOMAIN get_apartments(pre, "siteA") :
          /\ get_apartments(pre, "siteA")[id].status = "active"
          /\ \A i \in DOMAIN call.legacy_file.flats :
                call.legacy_file.flats[i].id = id => SiteOf(call.legacy_file.flats[i]) # "siteA"
          /\ get_apartments(files, "siteA")[id].status = "active"
    /\ ~pre["siteB"].exists
    /\ files["siteB"].exists

\* The position of the first token of text that is key, and 0 when there is
\* none.
IndexOf(text, key) ==
    IF \E i \in DOMAIN text : text[i] = key
    THEN CHOOSE i \in DOMAIN text : text[i] = key /\ \A j \in 1..(i - 1) : text[j] # key
    ELSE 0

\* C18: two site_data with the same content are written as the same text,
\* whatever the insertion order of their apartments and of the fields of the
\* data; every text ends with a newline, and in it the apartments come in
\* the order of their ids and the fields of the data of the first apartment in
\* the order of their names.
C18_DeterministicText ==
    /\ DOMAIN Texts = {"first", "second"} =>
          (Logical(call.first) = Logical(call.second) => Texts["first"] = Texts["second"])
    /\ \A w \in DOMAIN Texts :
          LET text == Texts[w]
              ids == sorted(Keys(call[w].apartments))
          IN /\ text[Len(text)] = "\n"
             /\ \A i, j \in DOMAIN ids : i < j => IndexOf(text, ids[i]) < IndexOf(text, ids[j])
             /\ \A i \in DOMAIN ids : IndexOf(text, ids[i]) > 0
             /\ ids # <<>> =>
                   \A i, j \in DOMAIN FlatFields :
                       IndexOf(KeyOrder, FlatFields[i]) < IndexOf(KeyOrder, FlatFields[j])
                       => /\ IndexOf(text, FlatFields[i]) > 0
                          /\ IndexOf(text, FlatFields[i]) < IndexOf(text, FlatFields[j])

C18_Witness ==
    /\ DOMAIN Texts = {"first", "second"}
    /\ call.first # call.second
    /\ Keys(call.first.apartments) # Keys(call.second.apartments)
    /\ Len(call.first.apartments) = 2
    /\ \E i \in DOMAIN call.first.apartments :
          Keys(call.first.apartments[i][2].data) # sorted(Keys(call.first.apartments[i][2].data))
    /\ Logical(call.first) = Logical(call.second)
    /\ Texts["first"] = Texts["second"]

C20_SeenAgain ==
    Saved => \A id \in OldIds \cap NewIds :
        /\ PostApts[id].last_seen = call.now
        /\ PostApts[id].status = "active"
        /\ PostApts[id].first_seen = PreApts[id].first_seen
        /\ IF PreApts[id].status = "removed" \/ \E d \in DumpsOf(id) : d # PreApts[id].data
           THEN /\ PostApts[id].data = LastDump(call.flats, id)
                /\ PostApts[id].last_updated = call.now
           ELSE /\ PostApts[id].data = PreApts[id].data
                /\ PostApts[id].last_updated = PreApts[id].last_updated

C20_Witness ==
    /\ Saved
    /\ \E id \in OldIds \cap NewIds :
          /\ PreApts[id].status = "active"
          /\ DumpsOf(id) = {PreApts[id].data}
          /\ PreApts[id].last_seen < call.now
          /\ PostApts[id].last_seen = call.now
          /\ PostApts[id].last_updated < call.now
    /\ \E id \in OldIds \cap NewIds :
          /\ PreApts[id].status = "active"
          /\ PreApts[id].data \notin DumpsOf(id)
          /\ PreApts[id].last_updated < call.now
          /\ PostApts[id].last_updated = call.now
          /\ PostApts[id].first_seen < call.now


\* C21: when an active stored id is not in the batch of save_apartments with
\* mark_missing_as_removed, its record after the call is the record before
\* the call with status removed: first_seen, last_seen, last_updated and data
\* are as they were.
C21_RemovalTouchesStatusOnly ==
    (Saved /\ call.mark_missing_as_removed) =>
        \A id \in OldIds \ NewIds :
            PreApts[id].status = "active" =>
                /\ id \in DOMAIN PostApts
                /\ PostApts[id] = [PreApts[id] EXCEPT !.status = "removed"]
                /\ PostApts[id].data = PreApts[id].data

C21_Witness ==
    /\ Saved
    /\ call.mark_missing_as_removed
    /\ \E id \in OldIds \ NewIds :
          /\ PreApts[id].status = "active"
          /\ PreApts[id].last_updated < PreApts[id].last_seen
          /\ PostApts[id].status = "removed"
          /\ PostApts[id].last_updated < PostApts[id].last_seen
          /\ PostApts[id].last_seen = PreApts[id].last_seen


\* C22: a record that is removed and is not in the batch of save_apartments is
\* not in removed_ids and is left as it was; over the scrapes since an id was
\* last in a batch, the id was in removed_ids once if its record is removed
\* and never if it is still active, and it is removed whenever the last
\* scrape was one with mark_missing_as_removed.
C22_RemovedLeftAlone ==
    Saved =>
        \A id \in OldIds \ NewIds :
            /\ PreApts[id].status = "removed" =>
                  /\ id \notin Range(ret.removed_ids)
                  /\ PostApts[id] = PreApts[id]
            /\ call.listed[id] = (IF PostApts[id].status = "removed" THEN 1 ELSE 0)
            /\ call.mark_missing_as_removed => call.listed[id] = 1

C22_Witness ==
    /\ Saved
    /\ call.mark_missing_as_removed
    /\ \E id \in OldIds \ NewIds :
          /\ PreApts[id].status = "removed"
          /\ PreApts[id].last_seen < call.now
          /\ PostApts[id] = PreApts[id]
          /\ call.listed[id] = 1
          /\ ret.removed_ids = <<>>


\* The ids of the two arguments of the detect_changes call.
DetectOld == DOMAIN call.old_apartments
DetectNew == {call.new_apartments[i].id : i \in DOMAIN call.new_apartments}

\* C23: detect_changes returns at most one change for an id and none for
\* any other id: exactly one new change with an empty changes map for each id
\* only in new, exactly one removed change that carries the old snapshot for
\* each id only in old, and for each id in both one updated change or none.
C23_OneChangePerId ==
    ret.op = "detect_changes" =>
        /\ \A i \in DOMAIN ret.changes : ret.changes[i].apartment_id \in DetectOld \cup DetectNew
        /\ \A id \in DetectOld \cup DetectNew : Cardinality(ChangesFor(ret.changes, id)) <= 1
        /\ \A id \in DetectNew \ DetectOld :
              /\ Cardinality(ChangesFor(ret.changes, id)) = 1
              /\ \A i \in ChangesFor(ret.changes, id) :
                    /\ ret.changes[i].change_type = "new"
                    /\ ret.changes[i].changes = EmptyMap
        /\ \A id \in DetectOld \ DetectNew :
              /\ Cardinality(ChangesFor(ret.changes, id)) = 1
              /\ \A i \in ChangesFor(ret.changes, id) :
                    /\ ret.changes[i].change_type = "removed"
                    /\ ret.changes[i].apartment_data = call.old_apartments[id]
        /\ \A id \in DetectOld \cap DetectNew :
              \A i \in ChangesFor(ret.changes, id) : ret.changes[i].change_type = "updated"

C23_Witness ==
    /\ ret.op = "detect_changes"
    /\ Len(ret.changes) = 2
    /\ ret.changes[1].change_type = "new"
    /\ ret.changes[1].changes = EmptyMap
    /\ ret.changes[2].change_type = "removed"
    /\ ret.changes[2].apartment_data = call.old_apartments[ret.changes[2].apartment_id]
    /\ Len(call.new_apartments) = 2

\* The monitored fields in which the old snapshot of the id and the flat of
\* the id in new differ.
Differing(id) ==
    {f \in MonitoredFields(call.config) :
        call.old_apartments[id][f] # LastDump(call.new_apartments, id)[f]}

\* C24: for an id in old and in new, detect_changes returns an updated change
\* exactly when a field of monitored_fields that is not in ignore_fields has
\* unequal old and new values; its changes map has exactly the differing
\* fields, each with (old value, new value), and no updated change has an
\* empty changes map.
C24_UpdatedIffMonitoredDiffer ==
    ret.op = "detect_changes" =>
        /\ \A id \in DetectOld \cap DetectNew :
              IF Differing(id) = {} THEN ChangesFor(ret.changes, id) = {}
              ELSE /\ Cardinality(ChangesFor(ret.changes, id)) = 1
                   /\ \A i \in ChangesFor(ret.changes, id) :
                         /\ ret.changes[i].change_type = "updated"
                         /\ DOMAIN ret.changes[i].changes = Differing(id)
                         /\ \A f \in Differing(id) :
                               ret.changes[i].changes[f] =
                                  <<call.old_apartments[id][f],
                                    LastDump(call.new_apartments, id)[f]>>
        /\ \A i \in DOMAIN ret.changes :
              ret.changes[i].change_type = "updated" => ret.changes[i].changes # EmptyMap

C24_Witness ==
    /\ ret.op = "detect_changes"
    /\ call.config = ChangeDetectorConfig
    /\ \E i \in DOMAIN ret.changes :
          /\ ret.changes[i].change_type = "updated"
          /\ DOMAIN ret.changes[i].changes = {"price", "title"}
          /\ ret.changes[i].changes.price = <<"1000.0", "1100.0">>
          /\ call.old_apartments[ret.changes[i].apartment_id].found_at #
                ret.changes[i].apartment_data.found_at


\* C25: after save_apartments with mark_missing_as_removed, a stored record of
\* the site is active if and only if its id is in the batch, so that
\* get_active_apartments holds exactly the ids of the batch, whatever was
\* saved before.
C25_ActiveIffInBatch ==
    (Saved /\ call.mark_missing_as_removed) =>
        /\ \A id \in DOMAIN PostApts : PostApts[id].status = "active" <=> id \in NewIds
        /\ NewIds \subseteq DOMAIN PostApts
        /\ DOMAIN get_active_apartments(files, call.site_name) = NewIds

C25_Witness ==
    /\ Saved
    /\ call.mark_missing_as_removed
    /\ \E id \in OldIds \ NewIds :
          PreApts[id].status = "active" /\ PostApts[id].status = "removed"
    /\ \E id \in OldIds \cap NewIds :
          PreApts[id].status = "removed" /\ PostApts[id].status = "active"
    /\ DOMAIN get_active_apartments(files, call.site_name) = NewIds


\* C26: in every state reached by sequential calls with a clock that does not
\* go back, every stored record has first_seen <= last_updated <= last_seen
\* <= last_scrape of its document, and no step changes the first_seen of a
\* stored record, also not a removal or a reactivation.
C26_TimestampOrder ==
    /\ [](\A s \in Sites : \A id \in DOMAIN get_apartments(files, s) :
            LET apt == get_apartments(files, s)[id]
            IN /\ apt.first_seen <= apt.last_updated
               /\ apt.last_updated <= apt.last_seen
               /\ apt.last_seen <= _read_site_data(files, s).last_scrape)
    /\ [][\A s \in Sites : \A id \in DOMAIN get_apartments(files, s) :
            /\ id \in DOMAIN get_apartments(files', s)
            /\ get_apartments(files', s)[id].first_seen =
                  get_apartments(files, s)[id].first_seen]_vars

C26_Witness ==
    /\ Saved
    /\ \E id \in OldIds \cap NewIds :
          /\ PreApts[id].status = "removed"
          /\ PostApts[id].status = "active"
          /\ PostApts[id].first_seen < PostApts[id].last_updated
          /\ PostApts[id].last_updated = PostApts[id].last_seen
    /\ \E id \in OldIds \ NewIds :
          /\ PostApts[id].last_updated <= PostApts[id].last_seen
          /\ PostApts[id].last_seen < _read_site_data(files, call.site_name).last_scrape


NoRepeats(list) == \A i, j \in DOMAIN list : list[i] = list[j] => i = j
PairwiseDisjoint ==
    /\ Range(ret.new_ids) \cap Range(ret.updated_ids) = {}
    /\ Range(ret.new_ids) \cap Range(ret.removed_ids) = {}
    /\ Range(ret.updated_ids) \cap Range(ret.removed_ids) = {}

\* C27 as claimed: for every call of save_apartments, also one whose batch
\* holds an id more than once, the lists new_ids, updated_ids and removed_ids
\* are pairwise disjoint and none of them holds an id more than once.
C27_ListsDisjointNoRepeats ==
    Saved =>
        /\ PairwiseDisjoint
        /\ NoRepeats(ret.new_ids)
        /\ NoRepeats(ret.updated_ids)
        /\ NoRepeats(ret.removed_ids)

\* What holds of the lists of save_apartments: they are pairwise disjoint for
\* every batch, and without repeats for a batch of distinct ids.
C27_DistinctBatch ==
    Saved =>
        /\ PairwiseDisjoint
        /\ NoRepeats(ret.removed_ids)
        /\ DistinctIds(call.flats) => (NoRepeats(ret.new_ids) /\ NoRepeats(ret.updated_ids))


\* C28 as claimed: when a record that is stored as removed is in the batch of
\* save_apartments_with_changes again with the monitored data it was stored
\* with, the returned changes hold a change for its id, as the save_apartments
\* step of the call lists the id in updated_ids.
C28_ReactivationReported ==
    WithChanges =>
        \A id \in OldIds \cap NewIds :
            (/\ PreApts[id].status = "removed"
             /\ ~MonitoredDiffer(ChangeDetectorConfig, PreApts[id].data, LastDump(call.flats, id))) =>
                /\ id \in Range(ret.updated_ids)
                /\ ChangesFor(ret.changes, id) # {}

\* What holds of such a call: the save_apartments step lists the id in
\* updated_ids and stores the record as active, and the returned changes
\* hold no change for the id.
C28_ReactivationSilent ==
    WithChanges =>
        \A id \in OldIds \cap NewIds :
            (/\ PreApts[id].status = "removed"
             /\ ~MonitoredDiffer(ChangeDetectorConfig, PreApts[id].data, LastDump(call.flats, id))) =>
                /\ id \in Range(ret.updated_ids)
                /\ PostApts[id].status = "active"
                /\ ChangesFor(ret.changes, id) = {}


\* The data directory the call found, with the files of every other site
\* taken away.
Alone == [path \in DOMAIN pre.files |->
            IF path = _get_site_file(call.site_name) THEN pre.files[path] ELSE NoFile]

\* C29: a save_apartments or save_apartments_with_changes call on a site
\* leaves the document and the change log of every other site as they were,
\* and it writes and returns what it would with no other site stored; the
\* documents and the logs of different sites are different files.
C29_SitesIsolated ==
    /\ \A s, t \in Sites :
          /\ _get_site_file(s) # history_file(t)
          /\ s # t => (_get_site_file(s) # _get_site_file(t) /\ history_file(s) # history_file(t))
    /\ call.op \in {"save_apartments", "save_apartments_with_changes"} =>
          /\ \A t \in Sites \ {call.site_name} :
                /\ files[_get_site_file(t)] = pre.files[_get_site_file(t)]
                /\ history[history_file(t)] = pre.history[history_file(t)]
          /\ \E ord \in Orders :
                LET r == save_apartments(DocumentsOf(Alone), call.site_name, call.flats,
                                         call.mark_missing_as_removed, call.now, ord)
                    apartments == get_apartments(DocumentsOf(Alone), call.site_name)
                    changes == detect_changes(ChangeDetectorConfig,
                                   [id \in DOMAIN apartments |-> apartments[id].data],
                                   call.flats, call.now, ord)
                IN /\ files[_get_site_file(call.site_name)] = r.file
                   /\ Saved => /\ ret.new_ids = r.new_ids
                               /\ ret.updated_ids = r.updated_ids
                               /\ ret.removed_ids = r.removed_ids
                   /\ WithChanges =>
                         /\ ret.changes = changes
                         /\ history[history_file(call.site_name)] =
                               IF call.track_history /\ changes # <<>>
                               THEN _save_change_history(pre.history[history_file(call.site_name)],
                                                         changes)
                               ELSE pre.history[history_file(call.site_name)]

C29_Witness ==
    /\ WithChanges
    /\ call.site_name = "siteB"
    /\ call.track_history
    /\ Len(ret.changes) = 1
    /\ ret.changes[1].change_type = "new"
    /\ pre.files[_get_site_file("siteA")].exists
    /\ "siteA-01" \in DOMAIN get_apartments(DocumentsOf(pre.files), "siteA")
    /\ get_apartments(DocumentsOf(pre.files), "siteA")["siteA-01"].status = "removed"
    /\ files[_get_site_file("siteA")] = pre.files[_get_site_file("siteA")]
    /\ Len(history[history_file("siteA")]) = 2
    /\ Len(history[history_file("siteB")]) = Len(pre.history[history_file("siteB")]) + 1
    /\ get_apartments(DocumentsOf(files), "siteB")["siteA-01"].status = "active"


\* The sites of which a scraper of the run has returned a flat.
ScrapedSites ==
    UNION {{call.results[i].flats[j].source : j \in DOMAIN call.results[i].flats} :
              i \in DOMAIN call.results}

\* C30: in a run of main no site is reconciled while a scraper has yet to
\* run; every site is reconciled at most once, only sites of which a flat
\* was scraped are, and all of these are when the run is done; the document
\* of a site whose scraper failed or returned no flats is as it was before
\* the scrapers ran and, where it existed, as it was before the run: the
\* status of its records and its last_scrape are kept.
C30_ScrapeThenReconcile ==
    call.op = "main" =>
        /\ call.pc = "scrape" => (files = call.before /\ call.reconciled = <<>>)
        /\ (call.reconciled # <<>> \/ call.pc \in {"reconcile", "done"}) =>
              Len(call.results) = Len(SCRAPERS)
        /\ NoRepeats(call.reconciled)
        /\ Range(call.reconciled) \subseteq ScrapedSites
        /\ call.pc = "done" => Range(call.reconciled) = ScrapedSites
        /\ \A i \in DOMAIN call.results :
              call.results[i].flats = <<>> =>
                 /\ call.results[i].source \notin Range(call.reconciled)
                 /\ files[call.results[i].source] = call.before[call.results[i].source]
                 /\ pre[call.results[i].source].exists =>
                       files[call.results[i].source] = pre[call.results[i].source]

C30_Witness ==
    /\ call.op = "main"
    /\ call.pc = "done"
    /\ call.results[1].health_status = "failed"
    /\ call.results[2].flats # <<>>
    /\ call.reconciled = <<"siteB">>
    /\ files["siteB"] # pre["siteB"]
    /\ pre["siteA"].exists
    /\ \E id \in DOMAIN get_apartments(pre, "siteA") :
          /\ get_apartments(pre, "siteA")[id].status = "active"
          /\ get_apartments(files, "siteA")[id].status = "active"
    /\ _read_site_data(files, "siteA").last_scrape < clock
    /\ _read_site_data(files, "siteB").last_scrape = clock

====
